---- MODULE Spec2Model ----
\* Review aggregation pipeline of the Reputation Monitor: the fetch route
\* (POST /api/reviews/fetch), the snapshot store and the hotel store it
\* writes, and the channel adapters it calls.
EXTENDS Integers, Sequences, FiniteSets, TLC

\* ---------------------------------------------------------------- bounds

\* Number of route invocations in one behaviour.
MaxFetches == 3
\* Number of adapter calls in one behaviour that deviate from the channel's
\* steady answer (a thrown exception, a place without rating).
MaxFaults == 1
\* The clock advances in steps of TickHours up to MaxTime (hours).
TickHours == 24
MaxTime == 48

\* ---------------------------------------------------------------- values

\* A nullable value is the empty sequence (null) or a one-element sequence.
Null == <<>>
Some(v) == <<v>>

\* Channel enum, and the order in which the route collects the results:
\* Google first, then the parallelFetches in push order.
Channels == {"google", "tripadvisor", "booking", "expedia", "airbnb"}
ResultOrder == <<"google", "tripadvisor", "booking", "expedia", "airbnb">>
ParallelChannels == {"tripadvisor", "booking", "expedia", "airbnb"}

\* 24 * 60 * 60 * 1000 ms, in hours.
CacheWindowHours == 24
\* recentSnapshots.length >= 3
CacheMinSnapshots == 3

NORMALIZATION_FACTORS ==
  [c \in Channels |-> IF c \in {"google", "tripadvisor", "airbnb"} THEN 2 ELSE 1]

\* normalizeScore that drops the digits after the second decimal.
normalizeScore_Truncates(rawScore, channel) ==
  ((rawScore * NORMALIZATION_FACTORS[channel]) \div 10) * 10

\* Scores are held in thousandths.  Math.round(x * 100) / 100 rounds x to the
\* nearest hundredth, a half upwards: with x = t / 1000 that is
\* ((t + 5) \div 10) * 10 thousandths.
normalizeScore(rawScore, channel) ==
  ((rawScore * NORMALIZATION_FACTORS[channel] + 5) \div 10) * 10

\* The raw score (thousandths) and review count a channel reports for a
\* hotel it lists.
RawScoreOf(c) ==
  CASE c = "google" -> 4200
    [] c = "tripadvisor" -> 4000
    [] c = "booking" -> 8500
    [] c = "expedia" -> 8700
    [] c = "airbnb" -> 4800
ReviewsOf(c) ==
  CASE c = "google" -> 500
    [] c = "tripadvisor" -> 300
    [] c = "booking" -> 200
    [] c = "expedia" -> 50
    [] c = "airbnb" -> 10

\* The sets of channels that list the hotel, one per behaviour: every
\* channel, three, two, none.
Worlds ==
  {Channels, {"google", "booking", "airbnb"}, {"google", "tripadvisor"}, {}}

HotelIds == {"h1", "h2"}
Names == {"Grand Plaza", "The Grand Plaza Hotel"}
StoredName == "Grand Plaza"

\* ---------------------------------------------------------------- strings

UpperCase == "ABCDEFGHIJKLMNOPQRSTUVWXYZ"
LowerCase == "abcdefghijklmnopqrstuvwxyz"
CharAt(s, i) == SubSeq(s, i, i)

toLowerCaseChar(ch) ==
  IF \E i \in 1..Len(UpperCase) : CharAt(UpperCase, i) = ch
    THEN CharAt(LowerCase, CHOOSE i \in 1..Len(UpperCase) : CharAt(UpperCase, i) = ch)
    ELSE ch

RECURSIVE toLowerCase(_)
toLowerCase(s) ==
  IF Len(s) = 0 THEN ""
  ELSE toLowerCaseChar(CharAt(s, 1)) \o toLowerCase(SubSeq(s, 2, Len(s)))

\* s.split(/\s+/) without the empty strings it yields at the ends of s (the
\* filter w.length > 2 drops them): the maximal runs of non-blank characters
\* of s, word being the run that is being read.
RECURSIVE split(_, _)
split(s, word) ==
  IF Len(s) = 0
    THEN IF word = "" THEN <<>> ELSE <<word>>
    ELSE IF CharAt(s, 1) = " "
           THEN (IF word = "" THEN <<>> ELSE <<word>>) \o split(SubSeq(s, 2, Len(s)), "")
           ELSE split(SubSeq(s, 2, Len(s)), word \o CharAt(s, 1))

\* s.includes(w)
includes(s, w) ==
  \E i \in 1..(Len(s) - Len(w) + 1) : SubSeq(s, i, i + Len(w) - 1) = w

\* ---------------------------------------------------------------- state

VARIABLES
  hasGoogleKey,   \* !!process.env.GOOGLE_PLACES_API_KEY
  hasRapidApiKey, \* !!process.env.RAPIDAPI_KEY
  listed,         \* channels on which the hotel can be found
  officialName,   \* details.name Google returns for the hotel
  googleCandidates, \* data.candidates.length of the Google place search
  storeFaulty,    \* whether an insert into review_snapshots can fail
  lost,           \* per invocation: the channels whose insert failed
  now,            \* clock, hours
  hotels,         \* table hotels: id -> row
  snapshots,      \* table review_snapshots: sequence of rows, insertion order
  pc,             \* position of each invocation of POST
  req,            \* its request: caller, body
  hotel,          \* its local copy of the hotel row (line 40)
  resolvedName,   \* its local resolvedName
  results,        \* channel -> its ReviewFetchResult (nullable)
  pending,        \* channels whose adapter promise has not settled
  calls,          \* channel -> number of adapter invocations so far
  callName,       \* channel -> hotelName argument of the adapter call
  persistIdx,     \* index into results of the persistence loop
  inserted,       \* indices into snapshots of the rows it appended
  updated,        \* hotel columns it wrote
  response,       \* its HTTP response (nullable)
  outcome,        \* channel -> how its adapter call ended (nullable)
  active,         \* the invocations that take requests
  nfetch,         \* invocations started
  nfaults,        \* deviating adapter calls so far
  norm,           \* one application of normalizeScore: arguments, result
  avg,            \* one application of calculateWeightedAverage
  airbnb,         \* one call of fetchAirbnbReviews: arguments, replies, result
  adapter,        \* one call of another adapter: arguments, replies, outcome
  batch,          \* one run of the batch scheduler of the hotel pages
  view            \* one load of a page or export: table, date range, scores

vars == <<hasGoogleKey, hasRapidApiKey, listed, officialName, googleCandidates,
          storeFaulty, lost, now, hotels,
          snapshots, pc, req, hotel, resolvedName, results, pending, calls,
          callName, persistIdx, inserted, updated, response, outcome, active,
          nfetch, nfaults, norm, avg, airbnb, adapter, batch, view>>

\* The state of the route handler, its stores and its environment.
routeVars == <<hasGoogleKey, hasRapidApiKey, listed, officialName, googleCandidates,
               storeFaulty, lost, now, hotels,
               snapshots, pc, req, hotel, resolvedName, results, pending, calls,
               callName, persistIdx, inserted, updated, response, outcome,
               active, nfetch, nfaults>>

\* The state of the library functions and components the route handler does
\* not touch.
libVars == <<norm, avg, airbnb, adapter, batch, view>>

\* What no step of an invocation changes.
staticVars == <<hasGoogleKey, hasRapidApiKey, listed, officialName, googleCandidates,
                storeFaulty, active, libVars>>

envVars == <<staticVars, lost>>

\* Concurrent invocations of the route handler.
Procs == {1, 2}

NoResults == [c \in Channels |-> Null]
NoCalls == [c \in Channels |-> 0]
NoNames == [c \in Channels |-> Null]

HotelRow(user, name) ==
  [user_id |-> user, name |-> name, city |-> Some("Lisbon"),
   google_place_id |-> Null, google_url |-> Null, tripadvisor_url |-> Null,
   booking_url |-> Null, expedia_url |-> Null, airbnb_url |-> Null]

\* A request: the session's user (nullable), whether the body parses as
\* JSON, and the body's hotel_id (nullable) and force.
\* A field the handler never reaches takes one value only.
Requests ==
  { r \in [caller : {Null, Some("u1")}, wellFormed : BOOLEAN,
           hotel_id : {Null, Some("h1"), Some("h2"), Some("h3")}, force : BOOLEAN] :
      /\ r.caller = Null => r.wellFormed
      /\ (r.caller = Null \/ ~r.wellFormed) => r.hotel_id = Null
      /\ r.hotel_id # Some("h1") => ~r.force }

NoRequest == [caller |-> Null, wellFormed |-> FALSE, hotel_id |-> Null, force |-> FALSE]

\* No library function is being applied, no other component is running.
NormIdle == [raw |-> 0, channel |-> "google", out |-> Null]
AvgIdle == [scores |-> [c \in Channels |-> Null], out |-> Null, done |-> FALSE]
AirbnbIdle ==
  [hotelName |-> "", search |-> [kind |-> "network", results |-> <<>>],
   reviews |-> Null, phase |-> "idle", matched |-> Null, found |-> Null,
   result |-> Null, thrown |-> FALSE]
AdapterIdle ==
  [channel |-> "google", hasKey |-> FALSE, existingPlaceId |-> Null,
   search |-> [kind |-> "network", results |-> <<>>],
   detail |-> [kind |-> "network", hasScore |-> FALSE, hasCount |-> FALSE],
   info |-> "network", rating |-> 0, phase |-> "idle", out |-> Null]
BatchIdle ==
  [handler |-> "handleFetchAllReviews", apiKeyStatus |-> Null, n |-> 0, i |-> 0,
   pc |-> "idle", status |-> <<>>, fetches |-> <<>>, round |-> <<>>,
   rounds |-> 0, sleeps |-> 0, successCount |-> 0, errorCount |-> 0,
   rejected |-> 0]
ViewIdle ==
  [page |-> "none", user |-> "u1", table |-> <<>>, from |-> Null, to |-> Null,
   out |-> Null]
LibIdle ==
  /\ norm = NormIdle
  /\ avg = AvgIdle
  /\ airbnb = AirbnbIdle
  /\ adapter = AdapterIdle
  /\ batch = BatchIdle
  /\ view = ViewIdle
  /\ adapter = AdapterIdle

\* The state before the first request that reaches the stores, with the given
\* invocations taking requests and the given number of requests served.
RouteInitOf(invocations, served) ==
  /\ now = 0
  /\ lost = [p \in Procs |-> {}]
  /\ hotels = [h \in HotelIds |-> HotelRow(IF h = "h1" THEN "u1" ELSE "u2", StoredName)]
  /\ snapshots = <<>>
  /\ pc = [p \in Procs |-> "idle"]
  /\ req = [p \in Procs |-> NoRequest]
  /\ hotel = [p \in Procs |-> Null]
  /\ resolvedName = [p \in Procs |-> Null]
  /\ results = [p \in Procs |-> NoResults]
  /\ pending = [p \in Procs |-> {}]
  /\ calls = [p \in Procs |-> NoCalls]
  /\ callName = [p \in Procs |-> NoNames]
  /\ persistIdx = [p \in Procs |-> 0]
  /\ inserted = [p \in Procs |-> {}]
  /\ updated = [p \in Procs |-> {}]
  /\ response = [p \in Procs |-> Null]
  /\ outcome = [p \in Procs |-> NoNames]
  /\ active = invocations
  /\ nfetch = served
  /\ nfaults = 0

\* The credentials configured and what the channels hold: Google knows the
\* hotel under a name that contains the stored one, as the only candidate.
RouteEnv ==
  /\ hasGoogleKey \in BOOLEAN
  /\ hasRapidApiKey \in BOOLEAN
  /\ listed \in Worlds
  /\ officialName \in {Some(n) : n \in Names}
  /\ googleCandidates = 1
  /\ storeFaulty = FALSE

\* One invocation at a time.
RouteInit == RouteEnv /\ RouteInitOf({1}, 0)

Init ==
  /\ RouteInit
  /\ LibIdle

\* The route at rest, for the behaviours of a library function on its own.
RouteAtRest ==
  /\ RouteInit
  /\ hasGoogleKey /\ hasRapidApiKey
  /\ listed = Channels
  /\ officialName = Some(StoredName)

\* ---------------------------------------------------------------- route

\* The JSON body of a response: an error, the cached notice, or the results.
ErrorBody(msg) == [kind |-> "error", error |-> msg, results |-> NoResults, hotel_name |-> Null]
CachedBody == [kind |-> "cached", error |-> "", results |-> NoResults, hotel_name |-> Null]
ResultsBody(rs, name) == [kind |-> "results", error |-> "", results |-> rs, hotel_name |-> name]

Respond(p, status, body) ==
  /\ response' = [response EXCEPT ![p] = Some([status |-> status, body |-> body])]
  /\ pc' = [pc EXCEPT ![p] = "done"]

\* The lookup without the user_id filter.
HotelLookup_AnyOwner(hotel_id, user_id) ==
  IF hotel_id \in HotelIds THEN Some(hotels[hotel_id]) ELSE Null

\* Lines 40-45: .eq('id', hotel_id).eq('user_id', user.id).single().
HotelLookup(hotel_id, user_id) ==
  IF hotel_id \in HotelIds /\ hotels[hotel_id].user_id = user_id
    THEN Some(hotels[hotel_id]) ELSE Null

\* Lines 10-49: pre-flight, auth, body, hotel lookup.
Start(p, r) ==
  /\ p \in active
  /\ pc[p] \in {"idle", "done"}
  /\ nfetch < MaxFetches
  /\ nfetch' = nfetch + 1
  /\ req' = [req EXCEPT ![p] = r]
  /\ hotel' = [hotel EXCEPT ![p] =
       IF r.caller # Null /\ r.wellFormed /\ r.hotel_id # Null
         THEN HotelLookup(r.hotel_id[1], r.caller[1]) ELSE Null]
  /\ resolvedName' = [resolvedName EXCEPT ![p] = Null]
  /\ results' = [results EXCEPT ![p] = NoResults]
  /\ pending' = [pending EXCEPT ![p] = {}]
  /\ calls' = [calls EXCEPT ![p] = NoCalls]
  /\ callName' = [callName EXCEPT ![p] = NoNames]
  /\ persistIdx' = [persistIdx EXCEPT ![p] = 0]
  /\ inserted' = [inserted EXCEPT ![p] = {}]
  /\ updated' = [updated EXCEPT ![p] = {}]
  /\ outcome' = [outcome EXCEPT ![p] = NoNames]
  /\ IF ~hasGoogleKey /\ ~hasRapidApiKey
       THEN Respond(p, 503, ErrorBody("No API keys configured"))
     ELSE IF r.caller = Null
       THEN Respond(p, 401, ErrorBody("Unauthorized"))
     ELSE IF ~r.wellFormed
       THEN Respond(p, 500, ErrorBody("Internal server error"))
     ELSE IF r.hotel_id = Null
       THEN Respond(p, 400, ErrorBody("hotel_id is required"))
     ELSE IF HotelLookup(r.hotel_id[1], r.caller[1]) = Null
       THEN Respond(p, 404, ErrorBody("Hotel not found"))
     ELSE /\ pc' = [pc EXCEPT ![p] = "cache_check"]
          /\ response' = [response EXCEPT ![p] = Null]
  /\ lost' = [lost EXCEPT ![p] = {}]
  /\ UNCHANGED <<staticVars, now, hotels, snapshots, nfaults>>

\* Lines 53-58: the rows the cache query returns at time t.
recentSnapshots(hotel_id, t) ==
  { i \in 1..Len(snapshots) :
      /\ snapshots[i].hotel_id = hotel_id
      /\ snapshots[i].average_score # Null
      /\ snapshots[i].fetched_at >= t - CacheWindowHours }

\* Line 60.
CacheHit(hotel_id, t) == Cardinality(recentSnapshots(hotel_id, t)) >= CacheMinSnapshots

\* The check without the force flag.
ShortCircuits_IgnoresForce(p) == CacheHit(req[p].hotel_id[1], now)

\* Lines 52 and 60: whether the invocation returns the cached notice.
ShortCircuits(p) == ~req[p].force /\ CacheHit(req[p].hotel_id[1], now)

\* The cache check placed after the Google call.
CacheCheck_AfterGoogle(p) ==
  /\ pc[p] = "cache_check"
  /\ IF ShortCircuits(p)
       THEN /\ Respond(p, 200, CachedBody)
            /\ calls' = [calls EXCEPT ![p]["google"] = @ + 1]
       ELSE /\ pc' = [pc EXCEPT ![p] = "google"]
            /\ UNCHANGED <<response, calls>>
  /\ UNCHANGED <<envVars, now, hotels, snapshots, req, hotel, resolvedName, results,
                 pending, callName, persistIdx, inserted, updated, outcome,
                 nfetch, nfaults>>

\* The cached notice sent without the return: the invocation goes on.
CacheCheck_NoReturn(p) ==
  /\ pc[p] = "cache_check"
  /\ response' = [response EXCEPT ![p] =
       IF ShortCircuits(p) THEN Some([status |-> 200, body |-> CachedBody]) ELSE @]
  /\ pc' = [pc EXCEPT ![p] = "google"]
  /\ UNCHANGED <<envVars, now, hotels, snapshots, req, hotel, resolvedName, results,
                 pending, calls, callName, persistIdx, inserted, updated, outcome,
                 nfetch, nfaults>>

\* Lines 51-66: cache check.
CacheCheck(p) ==
  /\ pc[p] = "cache_check"
  /\ IF ShortCircuits(p)
       THEN Respond(p, 200, CachedBody)
       ELSE /\ pc' = [pc EXCEPT ![p] = "google"]
            /\ UNCHANGED response
  /\ UNCHANGED <<envVars, now, hotels, snapshots, req, hotel, resolvedName, results,
                 pending, calls, callName, persistIdx, inserted, updated, outcome,
                 nfetch, nfaults>>

\* ---------------------------------------------------------------- results

EmptyResult(channel) ==
  [channel |-> channel, average_score |-> Null, normalized_score |-> Null,
   total_reviews |-> Null, url |-> Null, raw_response |-> Null,
   confidence |-> Null, error |-> Null]

\* A synthetic result whose error text does not say 'not configured'.
makeMissingKeyResult_OtherText(channel, keyName) ==
  [EmptyResult(channel) EXCEPT !.error = Some(keyName \o " is missing")]

\* Lines 69-78.
makeMissingKeyResult(channel, keyName) ==
  [EmptyResult(channel) EXCEPT !.error = Some(keyName \o " not configured in .env.local")]

\* Lines 104-115 and the .catch handlers of lines 125-158.
CaughtResult(channel, message) ==
  [EmptyResult(channel) EXCEPT !.error = Some(message)]

\* result.error?.includes('not configured'), over the error texts that occur.
IncludesNotConfigured(error) ==
  /\ error # Null
  /\ error[1] \in {"GOOGLE_PLACES_API_KEY not configured in .env.local",
                   "RAPIDAPI_KEY not configured in .env.local",
                   "RAPIDAPI_KEY not configured"}

\* What an adapter call can end in: "ok" (score found), "norating" (Google
\* place details without a rating), "notfound" (error result), "throw" (the
\* promise rejects).
OutcomeKinds == {"ok", "norating", "notfound", "throw"}

\* The answer a channel gives when nothing goes wrong.
SteadyOutcome(channel) == IF channel \in listed THEN "ok" ELSE "notfound"

\* The outcomes a call on the channel can have given the faults left.
Outcomes(channel) ==
  {SteadyOutcome(channel)}
    \cup (IF nfaults < MaxFaults THEN {"throw"} ELSE {})
    \cup (IF nfaults < MaxFaults /\ channel = "google" /\ channel \in listed
            THEN {"norating"} ELSE {})

\* The ReviewFetchResult an adapter returns (kind is not "throw").
AdapterResult(channel, kind, placeId) ==
  CASE kind = "ok" ->
         [channel |-> channel,
          average_score |-> Some(RawScoreOf(channel)),
          normalized_score |-> Some(normalizeScore(RawScoreOf(channel), channel)),
          total_reviews |-> Some(ReviewsOf(channel)),
          url |-> Some("https://" \o channel),
          raw_response |-> Some([placeId |-> placeId, name |->
                                   IF channel = "google" THEN officialName ELSE Null]),
          confidence |-> Some("high"),
          error |-> Null]
    [] kind = "norating" ->
         [channel |-> channel,
          average_score |-> Null,
          normalized_score |-> Null,
          total_reviews |-> Null,
          url |-> Some("https://" \o channel),
          raw_response |-> Some([placeId |-> placeId, name |->
                                   IF channel = "google" THEN officialName ELSE Null]),
          confidence |-> Some("high"),
          error |-> Null]
    [] OTHER ->
         [EmptyResult(channel) EXCEPT !.error = Some("Hotel not found")]

\* ---------------------------------------------------------------- phases

\* Lines 80-88: the Google phase up to the adapter call.
GoogleCall(p) ==
  /\ pc[p] = "google"
  /\ resolvedName' = [resolvedName EXCEPT ![p] = Some(hotel[p][1].name)]
  /\ IF ~hasGoogleKey
       THEN /\ results' = [results EXCEPT ![p]["google"] =
                  Some(makeMissingKeyResult("google", "GOOGLE_PLACES_API_KEY"))]
            /\ pc' = [pc EXCEPT ![p] = "parallel"]
            /\ UNCHANGED <<calls, callName>>
       ELSE /\ calls' = [calls EXCEPT ![p]["google"] = @ + 1]
            /\ callName' = [callName EXCEPT ![p]["google"] = Some(hotel[p][1].name)]
            /\ pc' = [pc EXCEPT ![p] = "google_wait"]
            /\ UNCHANGED results
  /\ UNCHANGED <<envVars, now, hotels, snapshots, req, hotel, pending, persistIdx,
                 inserted, updated, response, outcome, nfetch, nfaults>>

\* The place id the Google adapter reports: the cached one, else the found one.
GooglePlaceId(p) ==
  IF hotel[p][1].google_place_id # Null THEN hotel[p][1].google_place_id[1] ELSE "place-1"

\* airbnb.ts 306-315: the confidence findGooglePlace gives the first candidate.
findGooglePlaceConfidence(hotelName, candidateName, candidates) ==
  LET nameLower == toLowerCase(hotelName)
      candidateLower == toLowerCase(candidateName)
  IN  IF candidateLower = nameLower \/ includes(candidateLower, nameLower)
           \/ includes(nameLower, candidateLower)
        THEN "high"
      ELSE IF candidates = 1 THEN "medium"
      ELSE "low"

\* airbnb.ts 363-373: 'high' for a cached place id, else the search's.
GoogleConfidence(p) ==
  IF hotel[p][1].google_place_id # Null
    THEN "high"
    ELSE findGooglePlaceConfidence(hotel[p][1].name, officialName[1], googleCandidates)

\* The ReviewFetchResult of fetchGoogleReviews (kind is not "throw").
GoogleResult(p, kind) ==
  LET r == AdapterResult("google", kind, GooglePlaceId(p))
  IN  IF r.confidence = Null THEN r
      ELSE [r EXCEPT !.confidence = Some(GoogleConfidence(p))]

\* The Google call outside a try/catch: a rejection reaches the outer catch.
GoogleReturn_Rethrows(p, kind) ==
  /\ pc[p] = "google_wait"
  /\ kind \in Outcomes("google")
  /\ nfaults' = IF kind = SteadyOutcome("google") THEN nfaults ELSE nfaults + 1
  /\ outcome' = [outcome EXCEPT ![p]["google"] = Some(kind)]
  /\ IF kind = "throw"
       THEN /\ Respond(p, 500, ErrorBody("Internal server error"))
            /\ UNCHANGED <<results, resolvedName, hotels, updated>>
       ELSE LET googleResult == GoogleResult(p, kind)
                hotel_id == req[p].hotel_id[1]
                hasName == googleResult.raw_response # Null
                             /\ googleResult.raw_response[1].name # Null
            IN  /\ results' = [results EXCEPT ![p]["google"] = Some(googleResult)]
                /\ pc' = [pc EXCEPT ![p] = "parallel"]
                /\ UNCHANGED response
                /\ IF hasName
                     THEN /\ resolvedName' = [resolvedName EXCEPT ![p] =
                                               googleResult.raw_response[1].name]
                          /\ IF googleResult.raw_response[1].name[1] # hotel[p][1].name
                               THEN /\ hotels' = [hotels EXCEPT ![hotel_id].name =
                                                    googleResult.raw_response[1].name[1]]
                                    /\ updated' = [updated EXCEPT ![p] = @ \cup {"name"}]
                               ELSE UNCHANGED <<hotels, updated>>
                     ELSE UNCHANGED <<resolvedName, hotels, updated>>
  /\ UNCHANGED <<envVars, now, snapshots, req, hotel, pending, calls, callName,
                 persistIdx, inserted, nfetch>>

\* Lines 88-115: the Google adapter settles; name resolution.
GoogleReturn(p, kind) ==
  /\ pc[p] = "google_wait"
  /\ kind \in Outcomes("google")
  /\ nfaults' = IF kind = SteadyOutcome("google") THEN nfaults ELSE nfaults + 1
  /\ outcome' = [outcome EXCEPT ![p]["google"] = Some(kind)]
  /\ LET googleResult == IF kind = "throw"
                           THEN CaughtResult("google", "fetch failed")
                           ELSE GoogleResult(p, kind)
         hotel_id == req[p].hotel_id[1]
         hasName == googleResult.raw_response # Null /\ googleResult.raw_response[1].name # Null
     IN  /\ results' = [results EXCEPT ![p]["google"] = Some(googleResult)]
         /\ IF hasName
              THEN /\ resolvedName' = [resolvedName EXCEPT ![p] = googleResult.raw_response[1].name]
                   /\ IF googleResult.raw_response[1].name[1] # hotel[p][1].name
                        THEN /\ hotels' = [hotels EXCEPT ![hotel_id].name =
                                             googleResult.raw_response[1].name[1]]
                             /\ updated' = [updated EXCEPT ![p] = @ \cup {"name"}]
                        ELSE UNCHANGED <<hotels, updated>>
              ELSE UNCHANGED <<resolvedName, hotels, updated>>
  /\ pc' = [pc EXCEPT ![p] = "parallel"]
  /\ UNCHANGED <<envVars, now, snapshots, req, hotel, pending, calls, callName,
                 persistIdx, inserted, response, nfetch>>

\* The stored name passed instead of the resolved one.
ParallelHotelName_Stored(p) == Some(hotel[p][1].name)

\* Lines 125, 135, 145, 155: the hotelName argument of the parallel calls.
ParallelHotelName(p) == resolvedName[p]

\* Lines 118-159: the four parallel fetches are started (or substituted).
ParallelStart(p) ==
  /\ pc[p] = "parallel"
  /\ IF ~hasRapidApiKey
       THEN /\ results' = [results EXCEPT ![p] =
                  [c \in Channels |-> IF c \in ParallelChannels
                                        THEN Some(makeMissingKeyResult(c, "RAPIDAPI_KEY"))
                                        ELSE @[c]]]
            /\ UNCHANGED <<calls, callName, pending>>
       ELSE /\ calls' = [calls EXCEPT ![p] =
                  [c \in Channels |-> IF c \in ParallelChannels THEN @[c] + 1 ELSE @[c]]]
            /\ callName' = [callName EXCEPT ![p] =
                  [c \in Channels |-> IF c \in ParallelChannels THEN ParallelHotelName(p) ELSE @[c]]]
            /\ pending' = [pending EXCEPT ![p] = ParallelChannels]
            /\ UNCHANGED results
  /\ pc' = [pc EXCEPT ![p] = "parallel_wait"]
  /\ UNCHANGED <<envVars, now, hotels, snapshots, req, hotel, resolvedName, persistIdx,
                 inserted, updated, response, outcome, nfetch, nfaults>>

\* A rejection that also fails the promises still pending.
AdapterSettle_FailFast(p, c, kind) ==
  /\ pc[p] = "parallel_wait"
  /\ c \in pending[p]
  /\ kind \in Outcomes(c)
  /\ nfaults' = IF kind = SteadyOutcome(c) THEN nfaults ELSE nfaults + 1
  /\ outcome' = [outcome EXCEPT ![p][c] = Some(kind)]
  /\ IF kind = "throw"
       THEN /\ results' = [results EXCEPT ![p] =
                  [d \in Channels |-> IF d \in pending[p]
                                        THEN Some(CaughtResult(d, "fetch failed")) ELSE @[d]]]
            /\ pending' = [pending EXCEPT ![p] = {}]
       ELSE /\ results' = [results EXCEPT ![p][c] = Some(AdapterResult(c, kind, Null))]
            /\ pending' = [pending EXCEPT ![p] = @ \ {c}]
  /\ UNCHANGED <<envVars, now, hotels, snapshots, pc, req, hotel, resolvedName, calls,
                 callName, persistIdx, inserted, updated, response, nfetch>>

\* One of the parallel promises settles; a rejection is caught per channel.
AdapterSettle(p, c, kind) ==
  /\ pc[p] = "parallel_wait"
  /\ c \in pending[p]
  /\ kind \in Outcomes(c)
  /\ nfaults' = IF kind = SteadyOutcome(c) THEN nfaults ELSE nfaults + 1
  /\ outcome' = [outcome EXCEPT ![p][c] = Some(kind)]
  /\ results' = [results EXCEPT ![p][c] =
       Some(IF kind = "throw" THEN CaughtResult(c, "fetch failed")
                              ELSE AdapterResult(c, kind, Null))]
  /\ pending' = [pending EXCEPT ![p] = @ \ {c}]
  /\ UNCHANGED <<envVars, now, hotels, snapshots, pc, req, hotel, resolvedName, calls,
                 callName, persistIdx, inserted, updated, response, nfetch>>

\* A join that resolves with the first promise to settle.
AwaitAll_FirstSettled(p) ==
  /\ pc[p] = "parallel_wait"
  /\ pending[p] # ParallelChannels
  /\ pc' = [pc EXCEPT ![p] = "persist"]
  /\ persistIdx' = [persistIdx EXCEPT ![p] = 1]
  /\ UNCHANGED <<envVars, now, hotels, snapshots, req, hotel, resolvedName, results,
                 pending, calls, callName, inserted, updated, response, outcome, nfetch,
                 nfaults>>

\* A join that fails the invocation when every channel reported an error.
AwaitAll_EscalatesErrors(p) ==
  /\ pc[p] = "parallel_wait"
  /\ pending[p] = {}
  /\ IF \A c \in Channels : results[p][c][1].error # Null
       THEN /\ Respond(p, 500, ErrorBody("Internal server error"))
            /\ UNCHANGED persistIdx
       ELSE /\ pc' = [pc EXCEPT ![p] = "persist"]
            /\ persistIdx' = [persistIdx EXCEPT ![p] = 1]
            /\ UNCHANGED response
  /\ UNCHANGED <<envVars, now, hotels, snapshots, req, hotel, resolvedName, results,
                 pending, calls, callName, inserted, updated, outcome, nfetch,
                 nfaults>>

\* Lines 161-165: Promise.all resolves once every promise has settled.
AwaitAll(p) ==
  /\ pc[p] = "parallel_wait"
  /\ pending[p] = {}
  /\ pc' = [pc EXCEPT ![p] = "persist"]
  /\ persistIdx' = [persistIdx EXCEPT ![p] = 1]
  /\ UNCHANGED <<envVars, now, hotels, snapshots, req, hotel, resolvedName, results,
                 pending, calls, callName, inserted, updated, response, outcome, nfetch,
                 nfaults>>

\* Only scored results stored.
StoresSnapshot_ScoredOnly(result) == result.average_score # Null

\* Line 170: whether the result's snapshot is stored.
StoresSnapshot(result) ==
  result.average_score # Null \/ ~IncludesNotConfigured(result.error)

\* Lines 171-178: the inserted row; fetched_at defaults to now().
SnapshotRow(hotel_id, result, t) ==
  [hotel_id |-> hotel_id, channel |-> result.channel,
   average_score |-> result.average_score,
   normalized_score |-> result.normalized_score,
   total_reviews |-> result.total_reviews,
   fetched_at |-> t]

\* An upsert on (hotel_id, channel): the channel's latest row is overwritten.
InsertSnapshot_Upsert(table, row) ==
  IF \E i \in 1..Len(table) : table[i].hotel_id = row.hotel_id /\ table[i].channel = row.channel
    THEN [i \in 1..Len(table) |->
            IF table[i].hotel_id = row.hotel_id /\ table[i].channel = row.channel
              THEN row ELSE table[i]]
    ELSE Append(table, row)

\* Lines 171-178, supabase.from('review_snapshots').insert(row): the table
\* after the insert.
InsertSnapshot(table, row) == Append(table, row)

\* Lines 181-222: the hotel columns a result updates, as column -> value.
HotelUpdates(h, result) ==
  IF result.channel = "google"
    THEN (IF result.raw_response # Null /\ h.google_place_id = Null
            THEN {<<"google_place_id", Some(result.raw_response[1].placeId)>>} ELSE {})
         \cup (IF result.url # Null THEN {<<"google_url", result.url>>} ELSE {})
    ELSE IF result.url # Null
      THEN {<<result.channel \o "_url", result.url>>}
      ELSE {}

\* An update that writes the whole row back, with only the given columns
\* filled in among the URLs.
ApplyUpdates_WholeRow(row, ups) ==
  [col \in DOMAIN row |->
     IF \E u \in ups : u[1] = col THEN (CHOOSE u \in ups : u[1] = col)[2]
     ELSE IF ups # {} /\ col \in {"google_url", "tripadvisor_url", "booking_url",
                                  "expedia_url", "airbnb_url"}
       THEN Null
     ELSE row[col]]

\* supabase.from('hotels').update(updates).eq('id', hotel_id): the row with
\* the given columns set and every other column as it was.
ApplyUpdates(row, ups) ==
  [col \in DOMAIN row |->
     IF \E u \in ups : u[1] = col THEN (CHOOSE u \in ups : u[1] = col)[2] ELSE row[col]]

\* The store can refuse an insert while the budget of faults lasts.
InsertCanFail == storeFaulty /\ nfaults < MaxFaults

\* Line 171: the awaited insert resolves to an object with the store's error,
\* which the route does not read: no row, and the loop goes on.
InsertFailed(p, channel) ==
  /\ lost' = [lost EXCEPT ![p] = @ \cup {channel}]
  /\ nfaults' = nfaults + 1

\* A loop that a failed insert leaves through the outer catch.
NextResult_AbortsOnFailedInsert(p) ==
  IF lost'[p] # lost[p]
    THEN Respond(p, 500, ErrorBody("Internal server error"))
  ELSE IF persistIdx[p] = Len(ResultOrder)
    THEN Respond(p, 200, ResultsBody(results[p], resolvedName[p]))
    ELSE UNCHANGED <<pc, response>>

\* Lines 168 and 223-225: on to the next result, or the response after the
\* last one.
NextResult(p) ==
  IF persistIdx[p] = Len(ResultOrder)
    THEN Respond(p, 200, ResultsBody(results[p], resolvedName[p]))
    ELSE UNCHANGED <<pc, response>>

\* Lines 167-225: one iteration of the persistence loop; after the last one
\* the response is returned.
PersistOne(p) ==
  /\ pc[p] = "persist"
  /\ LET result == results[p][ResultOrder[persistIdx[p]]][1]
         hotel_id == req[p].hotel_id[1]
         ups == HotelUpdates(hotel[p][1], result)
     IN  /\ IF StoresSnapshot(result)
              THEN \/ /\ snapshots' = InsertSnapshot(snapshots, SnapshotRow(hotel_id, result, now))
                      /\ inserted' = [inserted EXCEPT ![p] = @ \cup {Len(snapshots) + 1}]
                      /\ UNCHANGED <<lost, nfaults>>
                   \/ /\ InsertCanFail
                      /\ InsertFailed(p, result.channel)
                      /\ UNCHANGED <<snapshots, inserted>>
              ELSE UNCHANGED <<snapshots, inserted, lost, nfaults>>
         /\ hotels' = [hotels EXCEPT ![hotel_id] = ApplyUpdates(@, ups)]
         /\ updated' = [updated EXCEPT ![p] = @ \cup {u[1] : u \in ups}]
  /\ NextResult(p)
  /\ persistIdx' = [persistIdx EXCEPT ![p] = @ + 1]
  /\ UNCHANGED <<staticVars, now, req, hotel, resolvedName, results, pending, calls,
                 callName, outcome, nfetch>>

\* Time passes. The clock's step is hours and an invocation lasts seconds,
\* so the clock steps between invocations.
Tick ==
  /\ \A p \in Procs : pc[p] \in {"idle", "done"}
  /\ now + TickHours <= MaxTime
  /\ now' = now + TickHours
  /\ UNCHANGED <<envVars, hotels, snapshots, pc, req, hotel, resolvedName, results,
                 pending, calls, callName, persistIdx, inserted, updated, response,
                 outcome, nfetch, nfaults>>

Next ==
  \/ \E p \in Procs : \E r \in Requests : Start(p, r)
  \/ \E p \in Procs : CacheCheck(p)
  \/ \E p \in Procs : GoogleCall(p)
  \/ \E p \in Procs : \E kind \in OutcomeKinds : GoogleReturn(p, kind)
  \/ \E p \in Procs : ParallelStart(p)
  \/ \E p \in Procs : \E c \in ParallelChannels : \E kind \in OutcomeKinds : AdapterSettle(p, c, kind)
  \/ \E p \in Procs : AwaitAll(p)
  \/ \E p \in Procs : PersistOne(p)
  \/ Tick

Spec == Init /\ [][Next]_vars

\* The steps an invocation takes by itself once its request has come in: the
\* route's own code between two awaits, and the settling of a call it waits
\* for.  Every adapter call is taken to return or fail in the end, and the
\* store to answer.
Proceeds(p) ==
  \/ CacheCheck(p)
  \/ GoogleCall(p)
  \/ \E kind \in OutcomeKinds : GoogleReturn(p, kind)
  \/ ParallelStart(p)
  \/ \E c \in ParallelChannels : \E kind \in OutcomeKinds : AdapterSettle(p, c, kind)
  \/ AwaitAll(p)
  \/ PersistOne(p)

\* Both credentials are set and every channel lists the hotel; the last two
\* requests are to come.
InitFair ==
  /\ RouteInitOf({1}, MaxFetches - 2)
  /\ hasGoogleKey = TRUE
  /\ hasRapidApiKey = TRUE
  /\ listed = Channels
  /\ officialName = Some(StoredName)
  /\ googleCandidates = 1
  /\ storeFaulty = FALSE
  /\ LibIdle

SpecFair == InitFair /\ [][Next]_vars /\ \A p \in Procs : WF_vars(Proceeds(p))

\* ---------------------------------------------------------------- overlap

\* Two invocations of POST in flight at once: the handler awaits the store and
\* the adapters, so the steps of two requests interleave. Both keys are set;
\* the requests served so far were rejected, and two more can be served.
InitConcurrent ==
  /\ RouteInitOf(Procs, MaxFetches - 2)
  /\ hasGoogleKey = TRUE
  /\ hasRapidApiKey = TRUE
  /\ listed \in {Channels, {"google", "booking", "airbnb"}}
  /\ officialName = Some(StoredName)
  /\ googleCandidates = 1
  /\ storeFaulty = FALSE
  /\ LibIdle

\* The requests of the signed-in owner for the hotel h1, forced or not.
OwnerRequests ==
  { r \in Requests : r.caller = Some("u1") /\ r.wellFormed /\ r.hotel_id = Some("h1") }

NextConcurrent ==
  \/ \E p \in Procs : \E r \in OwnerRequests : Start(p, r)
  \/ \E p \in Procs : CacheCheck(p)
  \/ \E p \in Procs : GoogleCall(p)
  \/ \E p \in Procs : \E kind \in OutcomeKinds : GoogleReturn(p, kind)
  \/ \E p \in Procs : ParallelStart(p)
  \/ \E p \in Procs : \E c \in ParallelChannels : \E kind \in OutcomeKinds : AdapterSettle(p, c, kind)
  \/ \E p \in Procs : AwaitAll(p)
  \/ \E p \in Procs : PersistOne(p)
  \/ Tick

SpecConcurrent == InitConcurrent /\ [][NextConcurrent]_vars

\* ---------------------------------------------------------------- renaming

\* A name Google holds that neither contains the stored name nor is contained
\* in it.
UnrelatedName == "Plaza Suites"

\* The Google key is set; the place search returns one candidate or several,
\* the first of them under any of the names.
InitRename ==
  /\ RouteInitOf({1}, 0)
  /\ hasGoogleKey = TRUE
  /\ hasRapidApiKey \in BOOLEAN
  /\ listed \in {Channels, {"google", "tripadvisor"}}
  /\ officialName \in {Some(n) : n \in Names \cup {UnrelatedName}}
  /\ googleCandidates \in {1, 2}
  /\ storeFaulty = FALSE
  /\ LibIdle

SpecRename == InitRename /\ [][Next]_vars

\* ---------------------------------------------------------------- store faults

\* Both keys are set and the store can refuse an insert.
InitStoreFault ==
  /\ RouteInitOf({1}, 0)
  /\ hasGoogleKey = TRUE
  /\ hasRapidApiKey = TRUE
  /\ listed \in {Channels, {"google", "tripadvisor"}}
  /\ officialName \in {Some(n) : n \in Names}
  /\ googleCandidates = 1
  /\ storeFaulty = TRUE
  /\ LibIdle

SpecStoreFault == InitStoreFault /\ [][Next]_vars

\* ---------------------------------------------------------------- claims

Status(p) == response[p][1].status
Body(p) == response[p][1].body

\* The invocation has ended with the cached notice / the results / an
\* overall failure.
Cached(p) == pc[p] = "done" /\ Body(p).kind = "cached"
Succeeded(p) == pc[p] = "done" /\ Status(p) = 200 /\ Body(p).kind = "results"
Failed(p) == pc[p] = "done" /\ Body(p).kind = "error"

\* The rows the invocation appended.
RowsOf(p) == {snapshots[i] : i \in inserted[p]}

\* The channels of a hotel that have a scored snapshot fetched within the
\* 24 hours before t.
FreshScoredChannels(hotel_id, t) ==
  { c \in Channels :
      \E i \in 1..Len(snapshots) :
        /\ snapshots[i].hotel_id = hotel_id
        /\ snapshots[i].channel = c
        /\ snapshots[i].average_score # Null
        /\ t - snapshots[i].fetched_at <= 24 }

\* C1: a non-forced fetch takes the cached short-circuit if and only if at
\* least 3 distinct channels of the hotel have a snapshot with a non-null
\* score fetched within the last 24 hours (count by channel, not by row).
C1_CachedIffThreeChannels ==
  [][\A p \in Procs :
       (pc[p] = "cache_check" /\ pc'[p] # "cache_check" /\ ~req[p].force)
         => ((pc'[p] = "done")
               <=> Cardinality(FreshScoredChannels(req[p].hotel_id[1], now)) >= 3)]_vars

\* The request names a hotel of the calling user.
ReqValid(r) ==
  /\ r.caller # Null
  /\ r.wellFormed
  /\ r.hotel_id # Null
  /\ r.hotel_id[1] \in HotelIds
  /\ hotels[r.hotel_id[1]].user_id = r.caller[1]

\* The result is a synthetic missing-credential result.
IsConfigError(result) ==
  result.error \in {Some("GOOGLE_PLACES_API_KEY not configured in .env.local"),
                    Some("RAPIDAPI_KEY not configured in .env.local")}

\* The rows the invocation appended for a channel.
RowsOfChannel(p, c) == {i \in inserted[p] : snapshots[i].channel = c}

\* C2: a non-forced fetch short-circuited by the cache check invokes no
\* adapter, appends no snapshot and leaves the hotel record unchanged.
C2_CachedLeavesNoTrace ==
  \A p \in Procs :
    Cached(p) =>
      /\ calls[p] = NoCalls
      /\ inserted[p] = {}
      /\ updated[p] = {}
      /\ hotels[req[p].hotel_id[1]] = hotel[p][1]

\* A cached response for a hotel an earlier fetch has written.
C2_Witness ==
  \E p \in Procs :
    /\ Cached(p)
    /\ ~req[p].force
    /\ hotels[req[p].hotel_id[1]].google_url # Null
    /\ Len(snapshots) >= 3

\* C3: a fetch with force=true never takes the cached short-circuit: for a
\* found hotel with both credentials configured each of the five adapters
\* is invoked exactly once, and no adapter is ever invoked a second time.
C3_ForcedCallsEachOnce ==
  \A p \in Procs :
    /\ \A c \in Channels : calls[p][c] <= 1
    /\ (pc[p] # "idle" /\ req[p].force) => ~Cached(p)
    /\ (pc[p] = "done" /\ req[p].force /\ ReqValid(req[p])
          /\ hasGoogleKey /\ hasRapidApiKey)
         => (Succeeded(p) /\ \A c \in Channels : calls[p][c] = 1)

\* A forced fetch that ran all adapters although three fresh scored
\* snapshots of earlier fetches existed.
C3_Witness ==
  \E p \in Procs :
    /\ Succeeded(p)
    /\ req[p].force
    /\ \A c \in Channels : calls[p][c] = 1
    /\ Cardinality({i \in recentSnapshots(req[p].hotel_id[1], now) :
                      i \notin inserted[p]}) >= 3

\* The name in the Google result of the invocation (nullable).
GoogleName(p) ==
  IF results[p]["google"] # Null /\ results[p]["google"][1].raw_response # Null
    THEN results[p]["google"][1].raw_response[1].name
    ELSE Null

\* C4: the Google call has completed before any of the other four adapters
\* is invoked; when Google returns a name different from the stored one the
\* stored name is updated before the parallel phase starts, and the four
\* adapters are called with the resolved name.
C4_GoogleFirstResolvedName ==
  \A p \in Procs :
    /\ \A c \in ParallelChannels :
         calls[p][c] > 0 =>
           /\ pc[p] \notin {"cache_check", "google", "google_wait"}
           /\ results[p]["google"] # Null
    /\ (/\ pc[p] \in {"parallel", "parallel_wait", "persist"}
        /\ GoogleName(p) # Null
        /\ GoogleName(p)[1] # hotel[p][1].name)
         => /\ hotels[req[p].hotel_id[1]].name = GoogleName(p)[1]
            /\ \A c \in ParallelChannels :
                 calls[p][c] > 0 => callName[p][c] = GoogleName(p)
    /\ (Succeeded(p) /\ GoogleName(p) # Null)
         => \A c \in ParallelChannels :
              calls[p][c] > 0 => callName[p][c] = GoogleName(p)

\* The parallel adapters in flight with a name Google resolved, different
\* from the one the hotel was stored with.
C4_Witness ==
  \E p \in Procs :
    /\ pc[p] = "parallel_wait"
    /\ pending[p] # {}
    /\ hotel[p][1].name = StoredName
    /\ callName[p]["airbnb"] = Some("The Grand Plaza Hotel")
    /\ hotels[req[p].hotel_id[1]].name = "The Grand Plaza Hotel"

\* The Google phase of the invocation is over and has failed: the adapter
\* returned an error result or threw, or the Google credential is missing.
GoogleFailed(p) ==
  /\ resolvedName[p] # Null
  /\ pc[p] \notin {"google", "google_wait"}
  /\ \/ ~hasGoogleKey
     \/ outcome[p]["google"] \in {Some("notfound"), Some("throw")}

\* C5 as stated: if the Google adapter returns an error result or throws,
\* or the Google credential is missing, the four other adapters are still
\* each invoked, with the stored name, and the invocation ends in success.
C5_GoogleFailureStillCallsAll ==
  \A p \in Procs :
    (GoogleFailed(p) /\ pc[p] \in {"parallel_wait", "persist", "done"})
      => /\ \A c \in ParallelChannels :
              calls[p][c] = 1 /\ callName[p][c] = Some(hotel[p][1].name)
         /\ pc[p] = "done" => Succeeded(p)

\* C5 amended: after a failed Google phase the invocation still ends in
\* success, and each of the four other adapters is invoked once with the
\* stored name provided the RapidAPI credential is configured; without it
\* each of the four gets its not-configured result and no adapter call.
C5_GoogleFailureDoesNotBlock ==
  \A p \in Procs :
    (GoogleFailed(p) /\ pc[p] \in {"parallel_wait", "persist", "done"})
      => /\ hasRapidApiKey =>
              \A c \in ParallelChannels :
                calls[p][c] = 1 /\ callName[p][c] = Some(hotel[p][1].name)
         /\ ~hasRapidApiKey =>
              \A c \in ParallelChannels :
                /\ calls[p][c] = 0
                /\ results[p][c] # Null
                /\ IsConfigError(results[p][c][1])
         /\ pc[p] = "done" => Succeeded(p)

\* A fetch that succeeded after the Google adapter threw, the other four
\* having been called with the stored name.
C5_Witness ==
  \E p \in Procs :
    /\ Succeeded(p)
    /\ outcome[p]["google"] = Some("throw")
    /\ \A c \in ParallelChannels :
         calls[p][c] = 1 /\ callName[p][c] = Some(StoredName)

\* The result the route holds for a channel given how the channel's own
\* adapter call ended.
OwnResult(p, c) ==
  IF outcome[p][c] = Null
    THEN makeMissingKeyResult(c, IF c = "google" THEN "GOOGLE_PLACES_API_KEY"
                                                 ELSE "RAPIDAPI_KEY")
  ELSE IF outcome[p][c] = Some("throw")
    THEN CaughtResult(c, "fetch failed")
    ELSE IF c = "google" THEN GoogleResult(p, outcome[p][c][1])
    ELSE AdapterResult(c, outcome[p][c][1], Null)

\* C6: an exception thrown by one of the four parallel adapters becomes an
\* error result for that channel only; the results and snapshot writes of
\* the other four channels are those of their own calls, and the
\* invocation returns success.
C6_ThrowIsolated ==
  \A p \in Procs : \A c \in ParallelChannels :
    (pc[p] = "done" /\ outcome[p][c] = Some("throw"))
      => /\ Succeeded(p)
         /\ Body(p).results[c][1].channel = c
         /\ Body(p).results[c][1].average_score = Null
         /\ Body(p).results[c][1].error # Null
         /\ \A d \in Channels \ {c} :
              /\ Body(p).results[d] = Some(OwnResult(p, d))
              /\ IF OwnResult(p, d).average_score = Null /\ IsConfigError(OwnResult(p, d))
                   THEN RowsOfChannel(p, d) = {}
                   ELSE /\ Cardinality(RowsOfChannel(p, d)) = 1
                        /\ \A i \in RowsOfChannel(p, d) :
                             /\ snapshots[i].average_score = OwnResult(p, d).average_score
                             /\ snapshots[i].normalized_score = OwnResult(p, d).normalized_score
                             /\ snapshots[i].total_reviews = OwnResult(p, d).total_reviews

\* Booking threw first, and the other four channels still got their scored
\* snapshots.
C6_Witness ==
  \E p \in Procs :
    /\ Succeeded(p)
    /\ outcome[p]["booking"] = Some("throw")
    /\ \A d \in Channels \ {"booking"} :
         \E i \in RowsOfChannel(p, d) : snapshots[i].average_score # Null
    /\ \E i \in RowsOfChannel(p, "booking") : snapshots[i].average_score = Null

\* C7: the persistence phase appends exactly one snapshot for each of the
\* five results, except that a result with a null score whose error is a
\* missing-credential error appends none; a not-found or transport-error
\* result with null scores still appends its row.
C7_OneRowPerResult ==
  \A p \in Procs :
    Succeeded(p) =>
      \A c \in Channels :
        LET r == Body(p).results[c][1]
        IN  IF r.average_score = Null /\ IsConfigError(r)
              THEN RowsOfChannel(p, c) = {}
              ELSE /\ Cardinality(RowsOfChannel(p, c)) = 1
                   /\ \A i \in RowsOfChannel(p, c) :
                        /\ snapshots[i].hotel_id = req[p].hotel_id[1]
                        /\ snapshots[i].average_score = r.average_score
                        /\ snapshots[i].normalized_score = r.normalized_score
                        /\ snapshots[i].total_reviews = r.total_reviews

\* A fetch with a missing-credential result (no row), a not-found result
\* and a transport-error result (each with its null-score row).
C7_Witness ==
  \E p \in Procs :
    /\ Succeeded(p)
    /\ IsConfigError(Body(p).results["google"][1])
    /\ RowsOfChannel(p, "google") = {}
    /\ \E c \in ParallelChannels :
         /\ outcome[p][c] = Some("notfound")
         /\ \E i \in RowsOfChannel(p, c) : snapshots[i].average_score = Null
    /\ \E c \in ParallelChannels :
         /\ outcome[p][c] = Some("throw")
         /\ \E i \in RowsOfChannel(p, c) : snapshots[i].average_score = Null

\* The number of snapshots of a hotel and channel in a table.
SnapshotCount(table, hotel_id, c) ==
  Cardinality({i \in 1..Len(table) : table[i].hotel_id = hotel_id /\ table[i].channel = c})

\* C8: snapshots are append-only: no step modifies or deletes an existing
\* row, and the number of snapshots of each hotel and channel never
\* decreases.
C8_AppendOnly ==
  [][/\ Len(snapshots') >= Len(snapshots)
     /\ \A i \in 1..Len(snapshots) : snapshots'[i] = snapshots[i]
     /\ \A h \in HotelIds : \A c \in Channels :
          SnapshotCount(snapshots', h, c) >= SnapshotCount(snapshots, h, c)]_vars

\* Three fetches have each appended a snapshot of the same channel, the
\* later ones differing from the first.
C8_Witness ==
  \E i, j, k \in 1..Len(snapshots) :
    /\ i < j /\ j < k
    /\ snapshots[i].channel = snapshots[j].channel
    /\ snapshots[j].channel = snapshots[k].channel
    /\ snapshots[i].average_score # snapshots[j].average_score
    /\ snapshots[i].fetched_at < snapshots[k].fetched_at

\* The statuses of an overall failure.
FailureStatuses == {503, 401, 400, 404, 500}

\* C9: an authorized, well-formed request on a hotel of the calling user
\* with at least one credential configured and no cache hit returns success
\* with exactly five results, one per channel, whatever channels failed; an
\* overall failure is returned only when all credentials are missing, the
\* caller is unauthorized, hotel_id is missing, the hotel is not found among
\* the user's hotels, or the body does not parse (internal fault).
C9_SuccessUnlessRejected ==
  \A p \in Procs :
    pc[p] = "done" =>
      LET ok == (hasGoogleKey \/ hasRapidApiKey) /\ ReqValid(req[p])
      IN  /\ ok => /\ Status(p) = 200
                   /\ Cached(p) \/ Succeeded(p)
                   /\ Cached(p) => ~req[p].force
                   /\ Succeeded(p) =>
                        \A c \in Channels :
                          /\ Body(p).results[c] # Null
                          /\ Body(p).results[c][1].channel = c
          /\ ~ok => /\ Failed(p)
                    /\ Status(p) \in FailureStatuses
                    /\ Body(p).results = NoResults

\* A fetch that returned success although every one of the five channels
\* ended in an error.
C9_Witness ==
  \E p \in Procs :
    /\ Succeeded(p)
    /\ \A c \in Channels : Body(p).results[c][1].error # Null
    /\ \E c \in Channels : outcome[p][c] = Some("throw")

\* The request is one the route rejects: all credentials missing, no
\* session user, no hotel_id, or no such hotel among the caller's hotels.
ShouldReject(r) ==
  \/ ~hasGoogleKey /\ ~hasRapidApiKey
  \/ r.caller = Null
  \/ r.wellFormed /\ r.hotel_id = Null
  \/ r.wellFormed /\ r.hotel_id # Null /\ ~ReqValid(r)

\* C10: a fetch rejected because all credentials are missing, the caller is
\* unauthorized, hotel_id is missing, or the hotel is not found or belongs
\* to another user has invoked no adapter and written no snapshot and no
\* hotel field.
C10_RejectedWritesNothing ==
  /\ \A p \in Procs :
       (pc[p] # "idle" /\ ShouldReject(req[p]))
         => /\ Failed(p)
            /\ Status(p) \in {503, 401, 400, 404}
            /\ calls[p] = NoCalls
            /\ inserted[p] = {}
            /\ updated[p] = {}
  /\ hotels["h2"] = HotelRow("u2", StoredName)
  /\ \A i \in 1..Len(snapshots) : snapshots[i].hotel_id # "h2"

\* A request for another user's hotel was rejected after an earlier fetch
\* of the caller's own hotel had written snapshots.
C10_Witness ==
  \E p \in Procs :
    /\ pc[p] = "done"
    /\ Status(p) = 404
    /\ req[p].hotel_id = Some("h2")
    /\ Len(snapshots) > 0

\* Whether the credential a channel depends on is configured.
HasKeyFor(c) == IF c = "google" THEN hasGoogleKey ELSE hasRapidApiKey

\* C11: when exactly one of the two credentials is missing, every channel
\* that depends on it gets a synthetic 'not configured' result without its
\* adapter being invoked and without a snapshot being stored, while the
\* adapters of the remaining channels are invoked and their results
\* persisted as usual.
C11_PartialCredentials ==
  \A p \in Procs :
    (hasGoogleKey # hasRapidApiKey) =>
      /\ \A c \in Channels : ~HasKeyFor(c) => calls[p][c] = 0
      /\ Succeeded(p) =>
           \A c \in Channels :
             LET r == Body(p).results[c][1]
             IN  IF HasKeyFor(c)
                   THEN /\ calls[p][c] = 1
                        /\ outcome[p][c] # Null
                        /\ r = OwnResult(p, c)
                        /\ Cardinality(RowsOfChannel(p, c)) = 1
                        /\ \A i \in RowsOfChannel(p, c) :
                             snapshots[i].average_score = r.average_score
                   ELSE /\ r.channel = c
                        /\ r.average_score = Null
                        /\ IsConfigError(r)
                        /\ outcome[p][c] = Null
                        /\ RowsOfChannel(p, c) = {}

\* A fetch without the RapidAPI credential: Google alone was called and
\* stored, the other four got their synthetic results.
C11_Witness ==
  \E p \in Procs :
    /\ Succeeded(p)
    /\ hasGoogleKey /\ ~hasRapidApiKey
    /\ calls[p]["google"] = 1
    /\ \E i \in RowsOfChannel(p, "google") : snapshots[i].average_score # Null
    /\ Cardinality(inserted[p]) = 1
    /\ \A c \in ParallelChannels : IsConfigError(Body(p).results[c][1])

\* ---------------------------------------------------------------- scoring

\* Raw scores fed to normalizeScore: 0 .. MaxRawScore thousandths.
MaxRawScore == 10000
\* Review counts fed to calculateWeightedAverage: the channel's count times
\* 0 .. MaxReviewScale.
MaxReviewScale == 1

NormInputs ==
  [raw : 0..MaxRawScore, channel : Channels, out : {Null}]

InitNormalize ==
  /\ RouteAtRest
  /\ norm \in NormInputs
  /\ avg = AvgIdle
  /\ airbnb = AirbnbIdle
  /\ adapter = AdapterIdle
  /\ batch = BatchIdle
  /\ view = ViewIdle

Normalize ==
  /\ norm.out = Null
  /\ norm' = [norm EXCEPT !.out = Some(normalizeScore(norm.raw, norm.channel))]
  /\ UNCHANGED <<routeVars, avg, airbnb, adapter, batch, view>>

NextNormalize == Normalize

SpecNormalize == InitNormalize /\ [][NextNormalize]_vars

\* const channels: Channel[] of calculateWeightedAverage.
AverageChannels == <<"google", "tripadvisor", "expedia", "booking", "airbnb">>

\* score?.normalized_score != null && score?.total_reviews != null
\*   && score.total_reviews > 0
Qualifies(score) ==
  /\ score # Null
  /\ score[1].normalized_score # Null
  /\ score[1].total_reviews # Null
  /\ score[1].total_reviews[1] > 0

\* totalWeightedScore and totalReviews after the first i channels of the loop.
RECURSIVE Accumulate(_, _)
Accumulate(scores, i) ==
  IF i = 0
    THEN [totalWeightedScore |-> 0, totalReviews |-> 0]
    ELSE LET acc == Accumulate(scores, i - 1)
             score == scores[AverageChannels[i]]
         IN  IF Qualifies(score)
               THEN [totalWeightedScore |->
                       acc.totalWeightedScore
                         + score[1].normalized_score[1] * score[1].total_reviews[1],
                     totalReviews |-> acc.totalReviews + score[1].total_reviews[1]]
               ELSE acc

\* calculateWeightedAverage that answers 0 when no channel has data.
calculateWeightedAverage_ZeroWhenEmpty(scores) ==
  LET acc == Accumulate(scores, Len(AverageChannels))
  IN  IF acc.totalReviews = 0
        THEN Some(0)
        ELSE Some(((2 * acc.totalWeightedScore + 10 * acc.totalReviews)
                     \div (20 * acc.totalReviews)) * 10)

\* Math.round((totalWeightedScore / totalReviews) * 100) / 100, in
\* thousandths: floor(S / (10 W) + 1/2) hundredths.
calculateWeightedAverage(scores) ==
  LET acc == Accumulate(scores, Len(AverageChannels))
  IN  IF acc.totalReviews = 0
        THEN Null
        ELSE Some(((2 * acc.totalWeightedScore + 10 * acc.totalReviews)
                     \div (20 * acc.totalReviews)) * 10)

\* The ChannelScore values of one channel: absent, or each field null or set.
ChannelScoreInputs(c) ==
  {Null} \cup
  { Some([normalized_score |-> n, total_reviews |-> t]) :
      n \in {Null, Some(normalizeScore(RawScoreOf(c), c))},
      t \in {Null} \cup {Some(k * ReviewsOf(c)) : k \in 0..MaxReviewScale} }

AvgInputs ==
  { [c \in Channels |->
       CASE c = "google" -> g
         [] c = "tripadvisor" -> t
         [] c = "expedia" -> e
         [] c = "booking" -> b
         [] c = "airbnb" -> a] :
      g \in ChannelScoreInputs("google"), t \in ChannelScoreInputs("tripadvisor"),
      e \in ChannelScoreInputs("expedia"), b \in ChannelScoreInputs("booking"),
      a \in ChannelScoreInputs("airbnb") }

InitAverage ==
  /\ RouteAtRest
  /\ norm = NormIdle
  /\ avg \in [scores : AvgInputs, out : {Null}, done : {FALSE}]
  /\ airbnb = AirbnbIdle
  /\ adapter = AdapterIdle
  /\ batch = BatchIdle
  /\ view = ViewIdle

Average ==
  /\ ~avg.done
  /\ avg' = [avg EXCEPT !.out = calculateWeightedAverage(avg.scores), !.done = TRUE]
  /\ UNCHANGED <<routeVars, norm, airbnb, adapter, batch, view>>

NextAverage == Average

SpecAverage == InitAverage /\ [][NextAverage]_vars

\* ---------------------------------------------------------------- C13

\* The multiplier the methodology gives each channel.
Multiplier(c) ==
  CASE c = "google" -> 2
    [] c = "tripadvisor" -> 2
    [] c = "airbnb" -> 2
    [] c = "expedia" -> 1
    [] c = "booking" -> 1

\* C13: for every channel and every non-negative raw score, normalizeScore
\* returns raw x multiplier rounded to two decimals (the multiple of 0.01
\* nearest to the product, a half going up), with multiplier 2 for google,
\* tripadvisor and airbnb and 1 for expedia and booking; a score of a
\* multiplier-1 channel that already has two decimals comes back unchanged.
C13_NormalizeRounds ==
  norm.out # Null =>
    LET v == norm.out[1]
        m == Multiplier(norm.channel)
        t == norm.raw * m
    IN  /\ v % 10 = 0
        /\ v - 5 <= t
        /\ t < v + 5
        /\ (m = 1 /\ norm.raw % 10 = 0) => v = norm.raw

\* An Expedia 8.7 stays 8.7, and a Google 4.236 has become 8.47.
C13_Witness ==
  \/ norm = [raw |-> 8700, channel |-> "expedia", out |-> Some(8700)]
  \/ norm = [raw |-> 4236, channel |-> "google", out |-> Some(8470)]

\* ---------------------------------------------------------------- C12

RECURSIVE SumOver(_, _)
SumOver(f, S) ==
  IF S = {} THEN 0
  ELSE LET c == CHOOSE x \in S : TRUE IN f[c] + SumOver(f, S \ {c})

\* The channels with a non-null normalized score and a positive review count.
Qualifying(scores) ==
  { c \in Channels :
      /\ scores[c] # Null
      /\ scores[c][1].normalized_score # Null
      /\ scores[c][1].total_reviews # Null
      /\ scores[c][1].total_reviews[1] > 0 }

\* Google 8.4 with 500, TripAdvisor 8.0 with 300, Booking.com 8.5 with 200
\* reviews, the others null.
ExampleScores ==
  [c \in Channels |->
     CASE c = "google" -> Some([normalized_score |-> Some(8400), total_reviews |-> Some(500)])
       [] c = "tripadvisor" -> Some([normalized_score |-> Some(8000), total_reviews |-> Some(300)])
       [] c = "booking" -> Some([normalized_score |-> Some(8500), total_reviews |-> Some(200)])
       [] OTHER -> Null]

\* C12: calculateWeightedAverage returns the sum of normalized_score x
\* total_reviews over the sum of total_reviews, taken over exactly the
\* channels that have a non-null normalized score and total_reviews > 0,
\* rounded to two decimals; the other channels do not count (not even as
\* zero), the result is null, not 0, when no channel qualifies, and the
\* example scores give 8.3.
C12_WeightedAverage ==
  avg.done =>
    LET Q == Qualifying(avg.scores)
        S == SumOver([c \in Q |-> avg.scores[c][1].normalized_score[1]
                                    * avg.scores[c][1].total_reviews[1]], Q)
        W == SumOver([c \in Q |-> avg.scores[c][1].total_reviews[1]], Q)
    IN  /\ Q = {} => avg.out = Null
        /\ Q # {} =>
             /\ avg.out # Null
             /\ avg.out[1] % 10 = 0
             /\ avg.out[1] * W - 5 * W <= S
             /\ S < avg.out[1] * W + 5 * W
        /\ avg.scores = ExampleScores => avg.out = Some(8300)

\* The example has been averaged to 8.3, or Google 8.4 with 500 and Airbnb 9.6
\* with 10 reviews, TripAdvisor present with 0 reviews, to 8.42.
C12_Witness ==
  /\ avg.done
  /\ \/ avg.scores = ExampleScores /\ avg.out = Some(8300)
     \/ /\ Qualifying(avg.scores) = {"google", "airbnb"}
        /\ avg.scores["tripadvisor"] # Null
        /\ avg.scores["tripadvisor"][1].total_reviews = Some(0)
        /\ avg.out = Some(8420)

\* ---------------------------------------------------------------- Airbnb adapter

\* Length of the result list of the Airbnb search.
MaxCandidates == 2

stopWords ==
  {"the", "hotel", "resort", "inn", "suites", "suite", "by", "at", "and",
   "of", "a", "an", "in", "on", "to", "for", "los", "las", "san", "santa"}

IsHotelWord(w) == Len(w) > 2 /\ w \notin stopWords

hotelWords(hotelName) == SelectSeq(split(toLowerCase(hotelName), ""), IsHotelWord)

isNameMatch(hotelName, listingName) ==
  LET words == hotelWords(hotelName)
      listingLower == toLowerCase(listingName)
  IN  \E k \in 1..Len(words) : includes(listingLower, words[k])

\* What the search endpoint may answer: no key (rapidApiFetch throws), a
\* rejected fetch, a non-JSON response, a body res.json() cannot parse, a JSON
\* body without a result array, or a result list.
AirbnbHotelNames == {"The Grand Plaza Hotel", "Hotel at the Inn", "W NY"}
AirbnbListingNames ==
  {"Cozy Studio near Grand Plaza", "GRANDEUR Suites", "The Hotel Inn",
   "W NY Times Square"}

AirbnbListings ==
  [name : AirbnbListingNames, hasId : BOOLEAN, rating : {Null, Some(RawScoreOf("airbnb"))}]

AirbnbResultLists ==
  UNION {[1..n -> AirbnbListings] : n \in 0..MaxCandidates}

AirbnbSearchReplies ==
  [kind : {"nokey", "network", "nonjson", "malformed", "noarray"}, results : {<<>>}]
    \cup [kind : {"results"}, results : AirbnbResultLists]

AirbnbReviewReplies == {"rating", "norating", "nonjson", "network"}

\* String(matched.id || matched.listing_id || '')
ListingId(list, i) == IF list[i].hasId THEN "L" \o ToString(i) ELSE ""

\* The object searchAirbnb builds from results[i].
FoundListing(list, i) ==
  [id |-> ListingId(list, i),
   name |-> list[i].name,
   rating |-> list[i].rating,
   reviewsCount |-> IF list[i].rating = Null THEN Null ELSE Some(ReviewsOf("airbnb")),
   url |-> IF list[i].hasId
             THEN Some("https://www.airbnb.com/rooms/" \o ListingId(list, i))
             ELSE Null]

\* results.find(...): the index of the first result the predicate accepts.
FindIndex(hotelName, list) ==
  LET hits == {i \in 1..Len(list) : isNameMatch(hotelName, list[i].name)}
  IN  IF hits = {} THEN Null
      ELSE Some(CHOOSE i \in hits : \A j \in hits : i <= j)

\* searchAirbnb that takes results[0] when no name matches.
searchAirbnb_FallsBackToFirst(hotelName, reply) ==
  IF reply.kind # "results" \/ Len(reply.results) = 0
    THEN Null
    ELSE LET matched == FindIndex(hotelName, reply.results)
         IN  IF matched = Null THEN Some(1) ELSE matched

\* searchAirbnb: the index of the listing it returns, or null.  Every
\* failure before the result list ends in return null (lines 89-98, 120-123).
searchAirbnb(hotelName, reply) ==
  IF reply.kind # "results" \/ Len(reply.results) = 0
    THEN Null
    ELSE FindIndex(hotelName, reply.results)

AirbnbNotFoundError ==
  "No matching Airbnb listing found. Most traditional hotels do not list on Airbnb."
AirbnbNoReviewsError == "Airbnb listing found but no review data available"

\* The result of fetchAirbnbReviews with a rating taken from source.
AirbnbScored(found, rating, count, source) ==
  [EmptyResult("airbnb") EXCEPT
     !.url = found.url,
     !.average_score = rating,
     !.normalized_score = Some(normalizeScore(rating[1], "airbnb")),
     !.total_reviews = count,
     !.confidence = Some("medium"),
     !.raw_response = Some(source)]

InitAirbnb ==
  /\ RouteAtRest
  /\ norm = NormIdle
  /\ avg = AvgIdle
  /\ airbnb \in [hotelName : AirbnbHotelNames, search : AirbnbSearchReplies,
                 reviews : {Null}, phase : {"search"}, matched : {Null},
                 found : {Null}, result : {Null}, thrown : {FALSE}]
  /\ adapter = AdapterIdle
  /\ batch = BatchIdle
  /\ view = ViewIdle

\* fetchAirbnbReviews up to its first return or to the call of
\* getAirbnbReviews.
AirbnbSearch ==
  /\ airbnb.phase = "search"
  /\ LET matched == searchAirbnb(airbnb.hotelName, airbnb.search)
         found == IF matched = Null THEN Null
                  ELSE Some(FoundListing(airbnb.search.results, matched[1]))
     IN  airbnb' =
           IF found = Null \/ found[1].id = ""
             THEN [airbnb EXCEPT
                     !.matched = matched, !.found = found, !.phase = "done",
                     !.result = Some([EmptyResult("airbnb") EXCEPT
                                        !.error = Some(AirbnbNotFoundError)])]
           ELSE IF found[1].rating # Null
             THEN [airbnb EXCEPT
                     !.matched = matched, !.found = found, !.phase = "done",
                     !.result = Some(AirbnbScored(found[1], found[1].rating,
                                                  found[1].reviewsCount, "search"))]
           ELSE [airbnb EXCEPT
                   !.matched = matched, !.found = found, !.phase = "reviews",
                   !.result = Some([EmptyResult("airbnb") EXCEPT !.url = found[1].url])]
  /\ UNCHANGED <<routeVars, norm, avg, adapter, batch, view>>

\* getAirbnbReviews: every failure returns rating null (lines 142-145,
\* 176-179).
getAirbnbReviews(reply) ==
  IF reply = "rating"
    THEN [rating |-> Some(RawScoreOf("airbnb")), count |-> Some(ReviewsOf("airbnb"))]
    ELSE [rating |-> Null, count |-> Null]

\* fetchAirbnbReviews from the return of getAirbnbReviews.
AirbnbReviews(reply) ==
  /\ airbnb.phase = "reviews"
  /\ LET reviewData == getAirbnbReviews(reply)
         found == airbnb.found[1]
     IN  airbnb' =
           [airbnb EXCEPT
              !.reviews = Some(reply),
              !.phase = "done",
              !.result =
                IF reviewData.rating # Null
                  THEN Some(AirbnbScored(found, reviewData.rating, reviewData.count, "reviews"))
                  ELSE Some([airbnb.result[1] EXCEPT
                               !.error = Some(AirbnbNoReviewsError),
                               !.confidence = Some("low"),
                               !.raw_response = Some("note")])]
  /\ UNCHANGED <<routeVars, norm, avg, adapter, batch, view>>

NextAirbnb ==
  \/ AirbnbSearch
  \/ \E reply \in AirbnbReviewReplies : AirbnbReviews(reply)

SpecAirbnb == InitAirbnb /\ [][NextAirbnb]_vars

\* ---------------------------------------------------------------- C14

\* The significant tokens of the hotel names: lower case, stopwords and
\* one- and two-letter filler discarded.
SignificantTokens(hotelName) ==
  CASE hotelName = "The Grand Plaza Hotel" -> {"grand", "plaza"}
    [] hotelName = "Hotel at the Inn" -> {}
    [] hotelName = "W NY" -> {}

Passes(hotelName, listingName) ==
  \E t \in SignificantTokens(hotelName) : includes(toLowerCase(listingName), t)

\* C14: the Airbnb adapter accepts a candidate only if a significant token
\* of the hotel name occurs as a substring of the candidate's name, and it is
\* the first such candidate of the result list; when no candidate passes the
\* result is the not-found error with every score field null, never another
\* candidate.
C14_AirbnbStrictMatch ==
  airbnb.phase = "done" =>
    LET list == airbnb.search.results
        P == {i \in 1..Len(list) : Passes(airbnb.hotelName, list[i].name)}
        r == airbnb.result[1]
    IN  /\ airbnb.matched # Null =>
             /\ airbnb.matched[1] \in P
             /\ \A j \in P : airbnb.matched[1] <= j
        /\ P # {} => airbnb.matched # Null
        /\ (r.url # Null \/ r.average_score # Null) =>
             /\ airbnb.matched # Null
             /\ r.url = Some("https://www.airbnb.com/rooms/L" \o ToString(airbnb.matched[1]))
        /\ P = {} =>
             /\ r.error = Some(AirbnbNotFoundError)
             /\ r.average_score = Null
             /\ r.normalized_score = Null
             /\ r.total_reviews = Null
             /\ r.url = Null

\* For "The Grand Plaza Hotel" the search returned "The Hotel Inn" (rated)
\* only, and the adapter answered not found; or it returned "The Hotel Inn"
\* and then "Cozy Studio near Grand Plaza", and the adapter took the second.
C14_Witness ==
  /\ airbnb.phase = "done"
  /\ airbnb.hotelName = "The Grand Plaza Hotel"
  /\ airbnb.search.kind = "results"
  /\ Len(airbnb.search.results) >= 1
  /\ airbnb.search.results[1].name = "The Hotel Inn"
  /\ airbnb.search.results[1].hasId
  /\ airbnb.search.results[1].rating # Null
  /\ \/ /\ Len(airbnb.search.results) = 1
        /\ airbnb.result[1].error = Some(AirbnbNotFoundError)
     \/ /\ Len(airbnb.search.results) = 2
        /\ airbnb.search.results[2].name = "Cozy Studio near Grand Plaza"
        /\ airbnb.matched = Some(2)
        /\ airbnb.result[1].average_score # Null

\* ---------------------------------------------------------------- adapters

\* limit: '25' of the TripAdvisor reviews/list request.
TripAdvisorSample == 25

Confidences == {"high", "medium", "low"}

\* What an HTTP exchange of an adapter can come to: a rejected fetch, a
\* response that is not JSON, a body res.json() cannot parse, JSON of a shape
\* the code does not expect, JSON without the data asked for, or the data.
SearchKinds == {"network", "nonjson", "badjson", "malformed", "empty", "ok"}
DetailKinds == {"network", "nonjson", "badjson", "malformed", "empty", "ok"}
InfoKinds == {"network", "malformed", "ok"}

\* The hotelName argument of the adapters.
SearchedName == StoredName

\* A candidate of a search: its name, whether it is of the channel's lodging
\* type (placeType ACCOMMODATION, search_type hotel, gaiaHotelResult), and
\* whether it carries an identifier.
CandidateNames == {"The Grand Plaza Hotel", "Grand", UnrelatedName}
Candidates == [name : CandidateNames, lodging : BOOLEAN, hasId : BOOLEAN]

\* Candidates that follow the first two of a result list.
MaxExtra == 4
Filler(lodging) == [name |-> UnrelatedName, lodging |-> lodging, hasId |-> TRUE]
Fill(n, lodging) == [i \in 1..n |-> Filler(lodging)]

\* The result lists: up to two candidates of any kind, then up to MaxExtra
\* more of one kind.
Heads ==
  {<<>>} \cup {<<c>> : c \in Candidates} \cup {<<c, d>> : c \in Candidates, d \in Candidates}
ResultLists ==
  {IF n = 0 THEN h ELSE h \o Fill(n, l) : h \in Heads, n \in 0..MaxExtra, l \in BOOLEAN}

\* The result lists with one candidate, alone or followed by MaxExtra others.
ShortResultLists ==
  {<<>>} \cup {<<c>> : c \in Candidates}
         \cup {<<c>> \o Fill(MaxExtra, FALSE) : c \in Candidates}

SearchRepliesOver(lists) ==
  [kind : SearchKinds \ {"ok"}, results : {<<>>}]
    \cup [kind : {"ok"}, results : lists]
SearchReplies == SearchRepliesOver(ShortResultLists)
DetailReplies ==
  [kind : DetailKinds \ {"ok"}, hasScore : {FALSE}, hasCount : {FALSE}]
    \cup [kind : {"ok"}, hasScore : BOOLEAN, hasCount : BOOLEAN]

\* Google's place search has no lodging types, and every candidate of it
\* has a place_id.
GoogleShaped(reply) ==
  \A i \in 1..Len(reply.results) : ~reply.results[i].lodging /\ reply.results[i].hasId

\* The score the channel's API reports when it reports one: Google's rating,
\* the mean of the ratings of TripAdvisor's reviews, average_score of
\* Booking.com's first review (on its scale of 0 to 4), Expedia's
\* averageOverallRating.raw.
UpstreamRatingOf(c) == IF c = "booking" THEN (RawScoreOf(c) * 2) \div 5 ELSE RawScoreOf(c)

\* The calls of the Google, TripAdvisor, Booking.com and Expedia adapters: the
\* credential, the cached place id (Google), and the replies of the search,
\* of the detail call and of getBookingHotelInfo (Booking.com).  A reply the
\* adapter never asks for takes one value only.
AdapterCalls(replies, details) ==
  LET Searches(c, k, e) ==
        IF ~k \/ e # Null THEN {AdapterIdle.search}
        ELSE IF c = "google" THEN {r \in replies : GoogleShaped(r)}
        ELSE replies
      Unasked(k, e, r) == ~k \/ (e = Null /\ r.kind # "ok")
      Details(k, e, r) == IF Unasked(k, e, r) THEN {AdapterIdle.detail} ELSE details
      Infos(c, k, e, r) ==
        IF c # "booking" \/ Unasked(k, e, r) THEN {"network"} ELSE InfoKinds
      PlaceIds(c) == IF c = "google" THEN {Null, Some("place1")} ELSE {Null}
      Calls(c, k, e) ==
        UNION { { [channel |-> c, hasKey |-> k, existingPlaceId |-> e,
                   search |-> r, detail |-> d, info |-> i,
                   rating |-> UpstreamRatingOf(c), phase |-> "call", out |-> Null] :
                    d \in Details(k, e, r), i \in Infos(c, k, e, r) } :
                r \in Searches(c, k, e) }
  IN  UNION { UNION { Calls(c, k, e) : e \in PlaceIds(c) } :
              c \in Channels \ {"airbnb"}, k \in BOOLEAN }

AdapterInputs == AdapterCalls(SearchReplies, DetailReplies)

\* The lodging-type filter of the three searches.
IsLodging(candidate) == candidate.lodging

\* hotelResults.length > 0 ? hotelResults[0] : results[0]
TopCandidate(list) ==
  LET hotelResults == SelectSeq(list, IsLodging)
  IN  IF Len(hotelResults) > 0 THEN hotelResults[1] ELSE list[1]

\* resultName.includes(nameLower) || nameLower.includes(resultName)
NamesContain(hotelName, resultName) ==
  LET nameLower == toLowerCase(hotelName)
      resultLower == toLowerCase(resultName)
  IN  includes(resultLower, nameLower) \/ includes(nameLower, resultLower)

\* A confidence that sets every match without a shared name down to low.
SearchConfidence_NeverMedium(hotelName, resultName, few) ==
  IF NamesContain(hotelName, resultName) THEN "high" ELSE "low"

\* The confidence of the three searches, few saying whether the count is at
\* or below the channel's threshold.
SearchConfidence(hotelName, resultName, few) ==
  IF NamesContain(hotelName, resultName) THEN "high"
  ELSE IF few THEN "medium"
  ELSE "low"

\* How a try block ends: with its return value, or with a thrown error and
\* the result object as it stands.
Returned(result) == [threw |-> FALSE, message |-> "", result |-> result]
Threw(message, result) == [threw |-> TRUE, message |-> message, result |-> result]

\* An adapter without its catch: the error reaches the caller.
Catch_Rethrows(attempt) ==
  IF attempt.threw
    THEN [thrown |-> TRUE, result |-> Null]
    ELSE [thrown |-> FALSE, result |-> Some(attempt.result)]

\* catch (error) { result.error = error.message; return result; }
Catch(attempt) ==
  [thrown |-> FALSE,
   result |-> Some(IF attempt.threw
                     THEN [attempt.result EXCEPT !.error = Some(attempt.message)]
                     ELSE attempt.result)]

\* Math.round(x * 100) / 100 and Math.round(x * 10) / 10, in thousandths.
Round2(x) == ((x + 5) \div 10) * 10
Round1(x) == ((x + 50) \div 100) * 100

ErrorResult(channel, message) == [EmptyResult(channel) EXCEPT !.error = Some(message)]

\* ---- Google

\* findGooglePlace: null without key, on status other than OK or no
\* candidate, and on every exception (lines 290, 304, 318-321).
findGooglePlace(a) ==
  IF ~a.hasKey \/ a.search.kind # "ok" \/ Len(a.search.results) = 0
    THEN Null
    ELSE Some([placeId |-> "place1",
               confidence |-> findGooglePlaceConfidence(SearchedName,
                                a.search.results[1].name, Len(a.search.results))])

\* getGooglePlaceDetails: data.result, whatever fields it has.
getGooglePlaceDetails(a) ==
  IF ~a.hasKey \/ a.detail.kind \in {"network", "nonjson", "badjson", "empty"}
    THEN Null
    ELSE Some([rating |-> IF a.detail.hasScore THEN Some(a.rating) ELSE Null,
               user_ratings_total |->
                 IF a.detail.hasCount THEN Some(ReviewsOf("google")) ELSE Null,
               url |-> IF a.detail.kind = "ok" THEN Some("https://maps.google.com/?cid=1")
                       ELSE Null])

fetchGoogleReviewsTry(a) ==
  LET found == IF a.existingPlaceId # Null
                 THEN Some([placeId |-> a.existingPlaceId[1], confidence |-> "high"])
                 ELSE findGooglePlace(a)
      details == getGooglePlaceDetails(a)
  IN  IF found = Null THEN Returned(ErrorResult("google", "Hotel not found on Google"))
      ELSE IF details = Null
        THEN Returned(ErrorResult("google", "Could not fetch place details"))
      ELSE Returned(
             [EmptyResult("google") EXCEPT
                !.average_score = details[1].rating,
                !.normalized_score =
                  IF details[1].rating # Null
                    THEN Some(normalizeScore(details[1].rating[1], "google"))
                    ELSE Null,
                !.total_reviews = details[1].user_ratings_total,
                !.url = details[1].url,
                !.confidence = Some(found[1].confidence),
                !.raw_response = Some(found[1].placeId)])

fetchGoogleReviews(a) == Catch(fetchGoogleReviewsTry(a))

\* ---- TripAdvisor

\* searchTripAdvisor: null on every failure (rapidApiFetch throwing without
\* key included), on an empty list and on a first result without id.
searchTripAdvisor(a) ==
  IF ~a.hasKey \/ a.search.kind # "ok" \/ Len(a.search.results) = 0
    THEN Null
    ELSE LET list == a.search.results
             hotelResults == SelectSeq(list, IsLodging)
             searchResults == IF Len(hotelResults) > 0 THEN hotelResults ELSE list
             first == searchResults[1]
         IN  IF ~first.hasId THEN Null
             ELSE Some([locationId |-> "1",
                        confidence |-> SearchConfidence(SearchedName, first.name,
                                                        Len(searchResults) <= 3)])

\* getTripAdvisorReviewsData: the parsed body, or null.
getTripAdvisorReviewsData(a) ==
  IF ~a.hasKey \/ a.detail.kind \in {"network", "nonjson", "badjson"}
    THEN Null
    ELSE Some(a.detail)

fetchTripAdvisorReviewsTry(a) ==
  LET found == searchTripAdvisor(a)
      reviewsData == getTripAdvisorReviewsData(a)
      averageRating == a.rating
  IN  IF found = Null
        THEN Returned(ErrorResult("tripadvisor", "Hotel not found on TripAdvisor"))
      ELSE IF reviewsData = Null
        THEN Returned(ErrorResult("tripadvisor", "Could not fetch TripAdvisor reviews"))
      ELSE IF reviewsData[1].kind = "malformed"
        \* reviewsData.data is not an array
        THEN Threw("reviews.filter is not a function", EmptyResult("tripadvisor"))
      ELSE IF reviewsData[1].kind = "empty"
        THEN Returned([ErrorResult("tripadvisor", "No reviews found on TripAdvisor")
                         EXCEPT !.raw_response = Some(found[1].locationId)])
      ELSE IF ~reviewsData[1].hasScore
        THEN Returned([ErrorResult("tripadvisor", "No rating data in TripAdvisor reviews")
                         EXCEPT !.raw_response = Some(found[1].locationId)])
      ELSE Returned(
             [EmptyResult("tripadvisor") EXCEPT
                !.average_score = Some(Round2(averageRating)),
                !.normalized_score = Some(normalizeScore(averageRating, "tripadvisor")),
                !.total_reviews =
                  Some(IF reviewsData[1].hasCount THEN ReviewsOf("tripadvisor")
                       ELSE TripAdvisorSample),
                !.url = Some("https://www.tripadvisor.com/Hotel_Review-d"
                              \o found[1].locationId),
                !.confidence = Some(found[1].confidence),
                !.raw_response = Some(found[1].locationId)])

fetchTripAdvisorReviews(a) == Catch(fetchTripAdvisorReviewsTry(a))

\* ---- Booking.com

searchBooking(a) ==
  IF ~a.hasKey \/ a.search.kind # "ok" \/ Len(a.search.results) = 0
    THEN Null
    ELSE LET first == TopCandidate(a.search.results)
         IN  IF ~first.hasId THEN Null
             ELSE Some([hotelId |-> "1",
                        confidence |-> SearchConfidence(SearchedName, first.name,
                                                        Len(a.search.results) <= 3)])

fetchBookingReviewsTry(a) ==
  LET found == searchBooking(a)
      \* bookingScore: 0 unless the first review carries average_score, else
      \* rawScore * 2.5
      bookingScore == IF a.detail.kind = "ok" /\ a.detail.hasScore
                        THEN (a.rating * 5) \div 2 ELSE 0
      hotelUrl == IF a.info = "ok" THEN Some("https://www.booking.com/hotel/1") ELSE Null
  IN  IF found = Null
        THEN Returned(ErrorResult("booking", "Hotel not found on Booking.com"))
      ELSE IF a.detail.kind = "malformed"
        \* reviewsList[0] is null
        THEN Threw("Cannot read properties of null", EmptyResult("booking"))
      ELSE IF a.info = "malformed"
        \* detailsData.url is not a string
        THEN Threw("detailsData.url.startsWith is not a function", EmptyResult("booking"))
      ELSE IF bookingScore > 0
        THEN Returned(
               [EmptyResult("booking") EXCEPT
                  !.average_score = Some(Round1(bookingScore)),
                  !.normalized_score = Some(normalizeScore(bookingScore, "booking")),
                  !.total_reviews =
                    IF a.detail.hasCount THEN Some(ReviewsOf("booking")) ELSE Null,
                  !.url = hotelUrl,
                  !.confidence = Some(found[1].confidence),
                  !.raw_response = Some(found[1].hotelId)])
      ELSE Returned([ErrorResult("booking", "No rating data available on Booking.com")
                       EXCEPT !.raw_response = Some(found[1].hotelId)])

fetchBookingReviews(a) == Catch(fetchBookingReviewsTry(a))

\* ---- Expedia

searchExpedia(a) ==
  IF ~a.hasKey \/ a.search.kind # "ok" \/ Len(a.search.results) = 0
    THEN Null
    ELSE LET first == TopCandidate(a.search.results)
             hotelResults == SelectSeq(a.search.results, IsLodging)
         IN  IF ~first.hasId THEN Null
             ELSE Some([hotelId |-> "1",
                        confidence |->
                          SearchConfidence(SearchedName, first.name,
                                           Len(hotelResults) > 0
                                             /\ Len(a.search.results) <= 5)])

\* getExpediaReviewsSummary: data[0] or data, or null; a summary without
\* averageOverallRating.raw counts as none at line 544.
getExpediaReviewsSummary(a) ==
  IF a.detail.kind = "ok" /\ a.detail.hasScore
    THEN Some([raw |-> a.rating,
               totalCount |-> IF a.detail.hasCount THEN Some(ReviewsOf("expedia")) ELSE Null])
    ELSE Null

fetchExpediaReviewsTry(a) ==
  LET found == searchExpedia(a)
      summary == getExpediaReviewsSummary(a)
  IN  IF found = Null
        THEN Returned(ErrorResult("expedia", "Hotel not found on Expedia/Hotels.com"))
      ELSE LET located == [EmptyResult("expedia") EXCEPT
                             !.confidence = Some(found[1].confidence),
                             !.url = Some("https://www.hotels.com/ho" \o found[1].hotelId)]
           IN  IF summary = Null
                 THEN Returned([located EXCEPT
                                  !.error = Some("Could not fetch Expedia review summary"),
                                  !.raw_response = Some(found[1].hotelId)])
                 ELSE Returned([located EXCEPT
                                  !.average_score = Some(summary[1].raw),
                                  !.normalized_score = Some(summary[1].raw),
                                  !.total_reviews = summary[1].totalCount,
                                  !.raw_response = Some(found[1].hotelId)])

fetchExpediaReviews(a) == Catch(fetchExpediaReviewsTry(a))

\* ---- one adapter call

InitAdapters ==
  /\ RouteAtRest
  /\ norm = NormIdle
  /\ avg = AvgIdle
  /\ batch = BatchIdle
  /\ view = ViewIdle
  /\ \/ adapter \in AdapterInputs /\ airbnb = AirbnbIdle
     \/ /\ adapter = AdapterIdle
        /\ airbnb \in [hotelName : AirbnbHotelNames, search : AirbnbSearchReplies,
                       reviews : {Null}, phase : {"search"}, matched : {Null},
                       found : {Null}, result : {Null}, thrown : {FALSE}]

FetchAdapter(channel, out) ==
  /\ adapter.phase = "call"
  /\ adapter.channel = channel
  /\ adapter' = [adapter EXCEPT !.phase = "done", !.out = Some(out)]
  /\ UNCHANGED <<routeVars, norm, avg, airbnb, batch, view>>

FetchGoogle == FetchAdapter("google", fetchGoogleReviews(adapter))
FetchTripAdvisor == FetchAdapter("tripadvisor", fetchTripAdvisorReviews(adapter))
FetchBooking == FetchAdapter("booking", fetchBookingReviews(adapter))
FetchExpedia == FetchAdapter("expedia", fetchExpediaReviews(adapter))

NextAdapters ==
  \/ FetchGoogle
  \/ FetchTripAdvisor
  \/ FetchBooking
  \/ FetchExpedia
  \/ AirbnbSearch
  \/ \E reply \in AirbnbReviewReplies : AirbnbReviews(reply)

SpecAdapters == InitAdapters /\ [][NextAdapters]_vars

\* ---- one adapter call, over every result list of the search

\* The detail call gives a score and a review count, or fails.
ScoredDetail == [kind |-> "ok", hasScore |-> TRUE, hasCount |-> TRUE]
SearchInputs ==
  AdapterCalls(SearchRepliesOver(ResultLists), {AdapterIdle.detail, ScoredDetail})

InitSearch ==
  /\ RouteAtRest
  /\ norm = NormIdle
  /\ avg = AvgIdle
  /\ airbnb = AirbnbIdle
  /\ batch = BatchIdle
  /\ view = ViewIdle
  /\ adapter \in SearchInputs

NextSearch ==
  \/ FetchGoogle
  \/ FetchTripAdvisor
  \/ FetchBooking
  \/ FetchExpedia

SpecSearch == InitSearch /\ [][NextSearch]_vars

\* ---- one adapter call, over the scores the channel can report

\* The scores in thousandths: Google's ratings of 1.0 to 5.0, the means of
\* eight TripAdvisor ratings of 1 to 5, Booking.com's scores of 0.0 to 4.0,
\* Expedia's of 0.0 to 10.0.
UpstreamRatings(c) ==
  CASE c = "google" -> {k * 100 : k \in 10..50}
    [] c = "tripadvisor" -> {k * 125 : k \in 8..40}
    [] c = "booking" -> {k * 100 : k \in 0..40}
    [] c = "expedia" -> {k * 100 : k \in 0..100}

\* The search finds the hotel as its only candidate and the detail call
\* gives a score and a review count.
FoundReply ==
  [kind |-> "ok",
   results |-> <<[name |-> "The Grand Plaza Hotel", lodging |-> TRUE, hasId |-> TRUE]>>]
FoundGoogleReply ==
  [kind |-> "ok",
   results |-> <<[name |-> "The Grand Plaza Hotel", lodging |-> FALSE, hasId |-> TRUE]>>]

ScoreInputs ==
  {[a EXCEPT !.rating = r] :
     a \in {b \in AdapterCalls({FoundReply, FoundGoogleReply}, {ScoredDetail}) : b.hasKey},
     r \in UNION {UpstreamRatings(c) : c \in Channels \ {"airbnb"}}}

InitScores ==
  /\ RouteAtRest
  /\ norm = NormIdle
  /\ avg = AvgIdle
  /\ airbnb = AirbnbIdle
  /\ batch = BatchIdle
  /\ view = ViewIdle
  /\ adapter \in {a \in ScoreInputs : a.rating \in UpstreamRatings(a.channel)}

SpecScores == InitScores /\ [][NextSearch]_vars

\* ---------------------------------------------------------------- C15

ResultFields ==
  {"channel", "average_score", "normalized_score", "total_reviews", "url",
   "raw_response", "confidence", "error"}

\* A structurally complete result of the channel in which a missing score
\* comes with no normalized score and no review count.
CompleteResult(r, channel) ==
  /\ DOMAIN r = ResultFields
  /\ r.channel = channel
  /\ r.average_score = Null => (r.normalized_score = Null /\ r.total_reviews = Null)

\* C15: each of the five adapters returns, on every path, a structurally
\* complete result carrying its own channel, never throws, and when it
\* obtained no score leaves average_score, normalized_score and total_reviews
\* all null.
C15_AdaptersNeverThrow ==
  /\ adapter.phase = "done" =>
       /\ ~adapter.out[1].thrown
       /\ adapter.out[1].result # Null
       /\ CompleteResult(adapter.out[1].result[1], adapter.channel)
  /\ airbnb.phase = "done" =>
       /\ ~airbnb.thrown
       /\ airbnb.result # Null
       /\ CompleteResult(airbnb.result[1], "airbnb")

\* ---------------------------------------------------------------- batch scheduler

\* Length of the hotel list of the page.
MaxHotels == 11
\* const batchSize = 5
batchSize == 5

BatchHandlers == {"handleFetchAllReviews", "handleFetchReviews"}

\* How the promise of one hotel of a batch settles: fulfilled after counting
\* a success, fulfilled after counting an error (response not ok, or every
\* channel failed), or rejected (fetch or res.json() threw).
BatchOutcomes == {"success", "error", "rejected"}

Min(a, b) == IF a <= b THEN a ELSE b

\* The credentials the health route looks at, by the name it gives each.
HealthKeys == {"google", "rapidapi", "anthropic"}

\* GET /api/health for the set of credentials that are in the environment:
\* configured says that none of the three is missing.
HealthGET(present) ==
  LET missingKeys == HealthKeys \ present
  IN  [configured |-> missingKeys = {},
       keys |-> [k \in HealthKeys |-> k \in present],
       missingKeys |-> missingKeys]

\* apiKeyStatus of the hotels page: null until the health response has been
\* stored, and for good when that request failed.
ApiKeyStatuses == {Null} \cup {Some(HealthGET(present)) : present \in SUBSET HealthKeys}

InitBatch ==
  /\ RouteAtRest
  /\ norm = NormIdle
  /\ avg = AvgIdle
  /\ airbnb = AirbnbIdle
  /\ adapter = AdapterIdle
  /\ view = ViewIdle
  /\ \E h \in BatchHandlers, status \in ApiKeyStatuses, n \in 0..MaxHotels :
       /\ h = "handleFetchReviews" => status = Null
       /\ batch = [handler |-> h, apiKeyStatus |-> status, n |-> n, i |-> 0, pc |-> "start",
                   status |-> [k \in 1..n |-> "unstarted"],
                   fetches |-> [k \in 1..n |-> 0],
                   round |-> [k \in 1..n |-> 0],
                   rounds |-> 0, sleeps |-> 0, successCount |-> 0, errorCount |-> 0,
                   rejected |-> 0]

BatchUnchanged == UNCHANGED <<routeVars, norm, avg, airbnb, adapter, view>>

\* if (apiKeyStatus && !apiKeyStatus.configured) return, in
\* handleFetchAllReviews; handleFetchReviews has no such check.
PreflightRefuses(b) ==
  /\ b.handler = "handleFetchAllReviews"
  /\ b.apiKeyStatus # Null
  /\ ~b.apiKeyStatus[1].configured

BatchPreflight ==
  /\ batch.pc = "start"
  /\ batch' = [batch EXCEPT
                 !.pc = IF PreflightRefuses(batch) THEN "refused" ELSE "loop"]
  /\ BatchUnchanged

\* hotels.slice(i, i + batchSize), as positions 1..n of the list.
BatchSlice(b) == (b.i + 1)..Min(b.i + batchSize, b.n)

\* The loop head: leave when i >= hotels.length, else map the slice to its
\* fetches, which starts every one of them, and await Promise.allSettled.
BatchLoop ==
  /\ batch.pc = "loop"
  /\ IF batch.i < batch.n
       THEN batch' =
              [batch EXCEPT
                 !.pc = "await",
                 !.rounds = @ + 1,
                 !.status = [k \in 1..batch.n |->
                               IF k \in BatchSlice(batch) THEN "inflight" ELSE @[k]],
                 !.fetches = [k \in 1..batch.n |->
                                IF k \in BatchSlice(batch) THEN @[k] + 1 ELSE @[k]],
                 !.round = [k \in 1..batch.n |->
                              IF k \in BatchSlice(batch) THEN batch.rounds + 1 ELSE @[k]]]
       ELSE batch' = [batch EXCEPT !.pc = "done"]
  /\ BatchUnchanged

\* One fetch of the batch settles.
BatchSettle(k, how) ==
  /\ batch.pc = "await"
  /\ k \in 1..batch.n
  /\ batch.status[k] = "inflight"
  /\ batch' =
       [batch EXCEPT
          !.status[k] = "settled",
          !.successCount =
            IF batch.handler = "handleFetchAllReviews" /\ how = "success"
              THEN @ + 1 ELSE @,
          !.errorCount =
            IF batch.handler = "handleFetchAllReviews" /\ how = "error"
              THEN @ + 1 ELSE @,
          !.rejected = IF how = "rejected" THEN @ + 1 ELSE @]
  /\ BatchUnchanged

\* Promise.allSettled that resolves as soon as one promise has settled.
AllSettled_FirstSettled(b) ==
  \E k \in BatchSlice(b) : b.status[k] = "settled"

\* Promise.allSettled resolves when every promise of the batch has settled,
\* fulfilled or rejected.
AllSettled(b) ==
  \A k \in BatchSlice(b) : b.status[k] = "settled"

\* After the await: the delay if another batch follows, then i += batchSize.
BatchAwait ==
  /\ batch.pc = "await"
  /\ AllSettled(batch)
  /\ batch' = IF batch.i + batchSize < batch.n
                THEN [batch EXCEPT !.pc = "sleep"]
                ELSE [batch EXCEPT !.pc = "loop", !.i = @ + batchSize]
  /\ BatchUnchanged

\* setTimeout(resolve, 1000) fires.
BatchWake ==
  /\ batch.pc = "sleep"
  /\ batch' = [batch EXCEPT !.pc = "loop", !.i = @ + batchSize, !.sleeps = @ + 1]
  /\ BatchUnchanged

NextBatch ==
  \/ BatchPreflight
  \/ BatchLoop
  \/ \E k \in 1..MaxHotels, how \in BatchOutcomes : BatchSettle(k, how)
  \/ BatchAwait
  \/ BatchWake

SpecBatch == InitBatch /\ [][NextBatch]_vars

\* ---------------------------------------------------------------- C16

\* The batch a hotel belongs to when the list is cut into consecutive
\* batches of 5: hotels 1..5 make batch 1, 6..10 batch 2, and so on.
BatchOf(k) == (k - 1) \div 5 + 1

\* C16: the scheduler cuts the ordered hotel list into consecutive batches of
\* at most 5 and starts the fetches of a batch together; it starts no fetch
\* of a batch before every fetch of the batches before it has settled,
\* whether fulfilled or rejected; every hotel is fetched exactly once, and
\* the delay is taken once between two consecutive batches and not after the
\* last.
C16_BatchBarrier ==
  LET H == 1..batch.n
      Started(k) == batch.fetches[k] > 0
  IN  batch.pc \notin {"idle", "refused"} =>
        /\ \A k \in H : batch.fetches[k] <= 1
        /\ \A k \in H : Started(k) => batch.round[k] = BatchOf(k)
        /\ \A k, j \in H : (Started(k) /\ BatchOf(j) = BatchOf(k)) => Started(j)
        /\ \A k, j \in H :
             (Started(k) /\ BatchOf(j) < BatchOf(k)) => batch.status[j] = "settled"
        /\ batch.pc = "sleep" =>
             /\ \A k \in H : Started(k) => batch.status[k] = "settled"
             /\ \E k \in H : ~Started(k)
        /\ batch.pc = "await" => batch.sleeps = batch.rounds - 1
        /\ batch.pc = "done" =>
             /\ \A k \in H : batch.fetches[k] = 1 /\ batch.status[k] = "settled"
             /\ batch.sleeps = IF batch.n = 0 THEN 0 ELSE BatchOf(batch.n) - 1

\* A list of 11 hotels has been worked off in three batches with two delays
\* although ten of the fetches were rejected and one counted an error.
C16_Witness ==
  /\ batch.pc = "done"
  /\ batch.n = 11
  /\ batch.rounds = 3
  /\ batch.sleeps = 2
  /\ batch.rejected = 10
  /\ batch.errorCount = 1
  /\ \A k \in 1..11 : batch.fetches[k] = 1

\* ---------------------------------------------------------------- pages and export

\* fetched_at of the rows of review_snapshots: days 1 .. MaxStamp, one row a
\* day at most (now() never gives two inserts the same timestamp).
MaxStamp == 3

ViewChannels == {"google", "booking"}
ViewPages == {"dashboard", "hotels", "detail", "export"}

\* The row inserted on day t, with the score of that day or without score.
ViewRow(h, c, t, scored) ==
  [hotel_id |-> h, channel |-> c, fetched_at |-> t,
   average_score |-> IF scored THEN Some(7000 + 500 * t) ELSE Null,
   normalized_score |-> IF scored THEN Some(7000 + 500 * t) ELSE Null,
   total_reviews |-> IF scored THEN Some(100 * t) ELSE Null]

\* The table in insertion order, from the row (or none) of each day.
RECURSIVE TableOf(_, _)
TableOf(days, t) ==
  IF t = 0 THEN <<>>
  ELSE TableOf(days, t - 1) \o (IF days[t] = Null THEN <<>> ELSE <<days[t][1]>>)

ViewDates == {Null, Some(2)}

InitView ==
  /\ RouteAtRest
  /\ norm = NormIdle
  /\ avg = AvgIdle
  /\ airbnb = AirbnbIdle
  /\ adapter = AdapterIdle
  /\ batch = BatchIdle
  /\ \E days \in [1..MaxStamp -> BOOLEAN] :
       \E rows \in [1..MaxStamp -> [hotel_id : HotelIds, channel : ViewChannels, scored : BOOLEAN]] :
         /\ \A t \in 1..MaxStamp : ~days[t] => rows[t] = [hotel_id |-> "h1", channel |-> "google", scored |-> FALSE]
         /\ \E page \in ViewPages, user \in {"u1", "u2"}, from \in ViewDates, to \in ViewDates :
              /\ page \in {"dashboard", "export"} => (from = Null /\ to = Null)
              /\ view = [page |-> page, user |-> user,
                         table |-> TableOf([t \in 1..MaxStamp |->
                                      IF days[t]
                                        THEN Some(ViewRow(rows[t].hotel_id, rows[t].channel,
                                                          t, rows[t].scored))
                                        ELSE Null], MaxStamp),
                         from |-> from, to |-> to, out |-> Null]

\* .gte('fetched_at', dateFrom) and .lt('fetched_at', dateTo + 1 day)
InDateRange(t, from, to) ==
  /\ from # Null => t >= from[1]
  /\ to # Null => t < to[1] + 1

\* The rows a query selects: hotel_id in ids, inside the date range.
Selected(table, ids, from, to) ==
  {i \in DOMAIN table :
     table[i].hotel_id \in ids /\ InDateRange(table[i].fetched_at, from, to)}

\* .order('fetched_at', {ascending}): the selected rows, sorted.
RECURSIVE OrderBy(_, _, _)
OrderBy(table, S, ascending) ==
  IF S = {} THEN <<>>
  ELSE LET i == CHOOSE x \in S :
                  \A y \in S : IF ascending
                                 THEN table[x].fetched_at <= table[y].fetched_at
                                 ELSE table[x].fetched_at >= table[y].fetched_at
       IN  <<table[i]>> \o OrderBy(table, S \ {i}, ascending)

\* rows.filter(pred) and rows.find(pred) for the predicates the pages use.
OfHotel(rows, h) == SelectSeq(rows, LAMBDA r : r.hotel_id = h)
FindChannel_FirstScored(rows, c) ==
  LET hits == {i \in DOMAIN rows : rows[i].channel = c /\ rows[i].average_score # Null}
  IN  IF hits = {} THEN Null
      ELSE Some(rows[CHOOSE i \in hits : \A j \in hits : i <= j])

FindChannel(rows, c) ==
  LET hits == {i \in DOMAIN rows : rows[i].channel = c}
  IN  IF hits = {} THEN Null
      ELSE Some(rows[CHOOSE i \in hits : \A j \in hits : i <= j])

Reverse(rows) == [i \in DOMAIN rows |-> rows[Len(rows) + 1 - i]]

ChannelScoreOf(latest) ==
  IF latest = Null THEN Null
  ELSE Some([average_score |-> latest[1].average_score,
             normalized_score |-> latest[1].normalized_score,
             total_reviews |-> latest[1].total_reviews,
             fetched_at |-> Some(latest[1].fetched_at)])

\* The scores and weighted average of one hotel from its rows, latest being
\* the way the page finds a channel's snapshot.
Scored(scores) ==
  [scores |-> scores, weighted_average |-> calculateWeightedAverage(scores)]

\* hotels .eq('user_id', user.id): the ids of the user's hotels.
Owned(user) == {h \in HotelIds : hotels[h].user_id = user}

\* The detail page without its reverse(): the first row in ascending order.
HotelDetailLatest_NoReverse(snaps, c) == FindChannel(snaps, c)

\* [...snapshots].reverse().find((s) => s.channel === ch)
HotelDetailLatest(snaps, c) == FindChannel(Reverse(snaps), c)

ViewUnchanged == UNCHANGED <<routeVars, norm, avg, airbnb, adapter, batch>>

\* loadDashboardData (dashboard page) and loadHotels (hotels page, with the
\* date range): rows newest first, the first row of a channel is its score.
ListScores(from, to) ==
  LET ids == Owned(view.user)
      rows == OrderBy(view.table, Selected(view.table, ids, from, to), FALSE)
  IN  [h \in ids |->
         Scored([c \in Channels |-> ChannelScoreOf(FindChannel(OfHotel(rows, h), c))])]

LoadDashboard ==
  /\ view.page = "dashboard" /\ view.out = Null
  /\ view' = [view EXCEPT !.out = Some(ListScores(Null, Null))]
  /\ ViewUnchanged

LoadHotels ==
  /\ view.page = "hotels" /\ view.out = Null
  /\ view' = [view EXCEPT !.out = Some(ListScores(view.from, view.to))]
  /\ ViewUnchanged

\* HotelDetailPage: rows oldest first, inside the date range.
LoadHotelDetail ==
  /\ view.page = "detail" /\ view.out = Null
  /\ LET ids == Owned(view.user)
         rows == OrderBy(view.table, Selected(view.table, ids, view.from, view.to), TRUE)
     IN  view' = [view EXCEPT !.out =
                    Some([h \in ids |->
                            Scored([c \in Channels |->
                                      ChannelScoreOf(HotelDetailLatest(OfHotel(rows, h), c))])])]
  /\ ViewUnchanged

\* GET /api/export: every channel gets an object, with nulls when it has no
\* snapshot.
ExportScoreOf(latest) ==
  IF latest = Null
    THEN Some([average_score |-> Null, normalized_score |-> Null,
               total_reviews |-> Null, fetched_at |-> Null])
    ELSE ChannelScoreOf(latest)

Export ==
  /\ view.page = "export" /\ view.out = Null
  /\ LET ids == Owned(view.user)
         rows == OrderBy(view.table, Selected(view.table, ids, Null, Null), FALSE)
     IN  view' = [view EXCEPT !.out =
                    Some([h \in ids |->
                            Scored([c \in Channels |->
                                      ExportScoreOf(FindChannel(OfHotel(rows, h), c))])])]
  /\ ViewUnchanged

NextView ==
  \/ LoadDashboard
  \/ LoadHotels
  \/ LoadHotelDetail
  \/ Export

SpecView == InitView /\ [][NextView]_vars

\* ---- the pages over the snapshots the fetch route has stored

\* The fetch route serves its last two requests, each at a later time than
\* the snapshots stored so far (fetched_at defaults to now(), which grows).
InitStored ==
  /\ RouteInitOf({1}, MaxFetches - 2)
  /\ hasGoogleKey = TRUE
  /\ hasRapidApiKey = TRUE
  /\ listed \in {Channels, {"google", "booking"}}
  /\ officialName = Some(StoredName)
  /\ googleCandidates = 1
  /\ storeFaulty = FALSE
  /\ LibIdle

LaterRequest(p, r) ==
  /\ \A i \in DOMAIN snapshots : snapshots[i].fetched_at < now
  /\ Start(p, r)

\* The dates of the filter of the hotels page and of the detail page: none,
\* or the day after the first.
StoredDates == {Null, Some(TickHours)}

\* A page is opened, or the export requested, by the owner while no fetch is
\* under way: its queries read the table as it stands.  The dashboard and
\* the export have no date filter.
OpenPage(page, from, to) ==
  /\ view.page = "none"
  /\ \A p \in Procs : pc[p] \in {"idle", "done"}
  /\ page \in {"dashboard", "export"} => (from = Null /\ to = Null)
  /\ view' = [page |-> page, user |-> "u1", table |-> snapshots,
               from |-> from, to |-> to, out |-> Null]
  /\ ViewUnchanged

NextStored ==
  \/ \E p \in Procs : \E r \in OwnerRequests : LaterRequest(p, r)
  \/ \E p \in Procs : CacheCheck(p)
  \/ \E p \in Procs : GoogleCall(p)
  \/ \E p \in Procs : \E kind \in OutcomeKinds : GoogleReturn(p, kind)
  \/ \E p \in Procs : ParallelStart(p)
  \/ \E p \in Procs : \E c \in ParallelChannels : \E kind \in OutcomeKinds : AdapterSettle(p, c, kind)
  \/ \E p \in Procs : AwaitAll(p)
  \/ \E p \in Procs : PersistOne(p)
  \/ Tick
  \/ \E page \in ViewPages, from \in StoredDates, to \in StoredDates :
       OpenPage(page, from, to)
  \/ LoadDashboard
  \/ LoadHotels
  \/ LoadHotelDetail
  \/ Export

SpecStored == InitStored /\ [][NextStored]_vars

\* ---------------------------------------------------------------- C17

\* The hotel's snapshots of the channel inside the selected date range (both
\* ends included), as positions in the table.
SnapshotsOf(h, c) ==
  {i \in DOMAIN view.table :
     /\ view.table[i].hotel_id = h
     /\ view.table[i].channel = c
     /\ view.from # Null => view.table[i].fetched_at >= view.from[1]
     /\ view.to # Null => view.table[i].fetched_at <= view.to[1]}

\* The one with the greatest fetched_at.
Greatest(h, c) ==
  CHOOSE i \in SnapshotsOf(h, c) :
    \A j \in SnapshotsOf(h, c) : view.table[j].fetched_at <= view.table[i].fetched_at

\* C17: the weighted average a page or the export shows for a hotel is the
\* one of the channel scores of, for each channel, the single snapshot with
\* the greatest fetched_at among the hotel's snapshots of that channel inside
\* the selected date range; no older snapshot contributes.
C17_LatestSnapshotOnly ==
  view.out # Null =>
    \A h \in DOMAIN view.out[1] :
      LET shown == view.out[1][h]
          expected ==
            [c \in Channels |->
               IF SnapshotsOf(h, c) = {} THEN Null
               ELSE Some([normalized_score |-> view.table[Greatest(h, c)].normalized_score,
                          total_reviews |-> view.table[Greatest(h, c)].total_reviews])]
      IN  /\ shown.weighted_average = calculateWeightedAverage(expected)
          /\ \A c \in Channels :
               IF SnapshotsOf(h, c) = {}
                 THEN shown.scores[c] = Null \/ shown.scores[c][1].fetched_at = Null
                 ELSE /\ shown.scores[c] # Null
                      /\ shown.scores[c][1].fetched_at =
                           Some(view.table[Greatest(h, c)].fetched_at)
                      /\ shown.scores[c][1].normalized_score =
                           view.table[Greatest(h, c)].normalized_score

\* The detail page of h1 shows 8.5, the Google score of day 3, although the
\* table also holds h1's Google score of day 1.
C17_Witness ==
  /\ view.page = "detail"
  /\ view.user = "u1"
  /\ view.out # Null
  /\ view.from = Null /\ view.to = Null
  /\ Len(view.table) = 2
  /\ \A i \in 1..2 : view.table[i].hotel_id = "h1" /\ view.table[i].channel = "google"
  /\ view.table[1] = ViewRow("h1", "google", 1, TRUE)
  /\ view.table[2] = ViewRow("h1", "google", 3, TRUE)
  /\ view.out[1]["h1"].weighted_average = Some(8500)

\* ---------------------------------------------------------------- C18

\* The channels for which the invocation's adapters returned a score.
ScoredChannels(p) ==
  {c \in Channels : results[p][c] # Null /\ results[p][c][1].average_score # Null}

\* The invocation is a non-forced fetch of the hotel that contacted the
\* adapters, got scores for at least 3 channels and appended snapshots.
FetchedAndAppended(p, hotel_id) ==
  /\ req[p].hotel_id = Some(hotel_id)
  /\ ~req[p].force
  /\ \E c \in Channels : calls[p][c] > 0
  /\ Cardinality(ScoredChannels(p)) >= CacheMinSnapshots
  /\ inserted[p] # {}

\* The times at which the invocation's snapshots were written.
FetchedAt(p) == {snapshots[i].fetched_at : i \in inserted[p]}

\* Two invocations wrote snapshots less than 24 hours apart.
WithinWindow(p, q) ==
  \E tp \in FetchedAt(p) : \E tq \in FetchedAt(q) :
    tp - tq < CacheWindowHours /\ tq - tp < CacheWindowHours

\* C18: for one hotel, of two non-forced fetches started within the same 24
\* hours whose adapters return scores for at least 3 channels, at most one
\* contacts the adapters and appends snapshots, also when the two run
\* concurrently.
C18_AtMostOneFetches ==
  \A p \in Procs : \A q \in Procs \ {p} : \A h \in HotelIds :
    ~(FetchedAndAppended(p, h) /\ FetchedAndAppended(q, h) /\ WithinWindow(p, q))

\* ---------------------------------------------------------------- C19

\* The place of a channel in the results array: Google, then push order.
ChannelIndex(c) == CHOOSE k \in 1..Len(ResultOrder) : ResultOrder[k] = c

\* The invocation has left the join: it is writing, or has returned results.
PastJoin(p) == pc[p] = "persist" \/ Succeeded(p)

\* C19: no snapshot of an invocation is written before the Google result and
\* all four parallel results are available; the four parallel adapters
\* complete in any order, and the snapshots written and the returned results
\* are those of each channel's own call, in the order Google, TripAdvisor,
\* Booking, Expedia, Airbnb, whatever the order of completion.
C19_JoinBeforePersist ==
  \A p \in Procs :
    /\ (pc[p] \in {"google", "google_wait", "parallel", "parallel_wait"})
         => inserted[p] = {}
    /\ PastJoin(p) =>
         /\ pending[p] = {}
         /\ \A c \in Channels : results[p][c] = Some(OwnResult(p, c))
         /\ \A i \in inserted[p] : \A j \in inserted[p] :
              i < j => ChannelIndex(snapshots[i].channel) < ChannelIndex(snapshots[j].channel)
         /\ \A c \in Channels :
              RowsOfChannel(p, c) # {} =>
                /\ StoresSnapshot(OwnResult(p, c))
                /\ ChannelIndex(c) < persistIdx[p]
    /\ Succeeded(p) =>
         /\ Body(p).results = [c \in Channels |-> Some(OwnResult(p, c))]
         /\ \A c \in Channels :
              StoresSnapshot(OwnResult(p, c)) => RowsOfChannel(p, c) # {}

\* A fetch that returned after writing five snapshots in the order of the
\* results array, one of them for an adapter that threw and one for an
\* adapter that did not find the hotel.
C19_Witness ==
  \E p \in Procs :
    /\ Succeeded(p)
    /\ Cardinality(inserted[p]) = Len(ResultOrder)
    /\ \E c \in ParallelChannels : outcome[p][c] = Some("throw")
    /\ \E c \in ParallelChannels : outcome[p][c] = Some("notfound")
    /\ \E c \in ParallelChannels : outcome[p][c] = Some("ok")

\* ---------------------------------------------------------------- C20

\* C20: a fetch changes the hotel's stored name only during the Google phase,
\* only to the name returned by the Google adapter, and only when that Google
\* result is a confident match (not a low-confidence one); a failed or
\* errored Google call never changes the name.
C20_RenameOnlyOnConfidentMatch ==
  [][\A h \in HotelIds :
       hotels'[h].name # hotels[h].name =>
         \E p \in Procs :
           /\ pc[p] = "google_wait" /\ pc'[p] = "parallel"
           /\ req[p].hotel_id = Some(h)
           /\ outcome'[p]["google"] \in {Some("ok"), Some("norating")}
           /\ results'[p]["google"] # Null
           /\ results'[p]["google"][1].error = Null
           /\ results'[p]["google"][1].raw_response # Null
           /\ results'[p]["google"][1].raw_response[1].name = Some(hotels'[h].name)
           /\ results'[p]["google"][1].confidence \in {Some("high"), Some("medium")}]_vars

\* ---------------------------------------------------------------- C21

\* The search of the call returned candidates, none of the lodging type.
NoLodgingCandidate(a) ==
  /\ a.hasKey
  /\ a.search.kind = "ok"
  /\ Len(a.search.results) > 0
  /\ \A i \in 1..Len(a.search.results) : ~a.search.results[i].lodging

NotFoundErrors ==
  {Some("Hotel not found on TripAdvisor"), Some("Hotel not found on Booking.com"),
   Some("Hotel not found on Expedia/Hotels.com")}

\* C21: in the TripAdvisor, Expedia and Booking adapters, when the search
\* returns candidates but none passes the channel's lodging-type filter, the
\* adapter returns a not-found error with all score fields null instead of
\* using a non-lodging candidate.
C21_NoLodgingIsNotFound ==
  (/\ adapter.phase = "done"
   /\ adapter.channel \in {"tripadvisor", "booking", "expedia"}
   /\ NoLodgingCandidate(adapter))
    => LET r == adapter.out[1].result[1]
       IN  /\ r.error \in NotFoundErrors
           /\ r.average_score = Null
           /\ r.normalized_score = Null
           /\ r.total_reviews = Null

\* ---------------------------------------------------------------- C22

\* The URL a hotel row holds for a channel.
UrlOf(row, c) ==
  CASE c = "google" -> row.google_url
    [] c = "tripadvisor" -> row.tripadvisor_url
    [] c = "booking" -> row.booking_url
    [] c = "expedia" -> row.expedia_url
    [] c = "airbnb" -> row.airbnb_url

\* C22: if writing one channel's snapshot fails, the snapshots of the
\* remaining channels of the same invocation are still attempted and written,
\* their hotel URL updates still happen, and the invocation still returns its
\* per-channel results.
C22_FailedInsertDoesNotAbort ==
  \A p \in Procs :
    (pc[p] = "done" /\ lost[p] # {}) =>
      /\ Succeeded(p)
      /\ Body(p).results = results[p]
      /\ \A c \in Channels :
           LET r == results[p][c][1]
           IN  /\ (StoresSnapshot(r) /\ c \notin lost[p]) =>
                    \E i \in RowsOfChannel(p, c) :
                      snapshots[i] = SnapshotRow(req[p].hotel_id[1], r,
                                                 snapshots[i].fetched_at)
               /\ r.url # Null => UrlOf(hotels[req[p].hotel_id[1]], c) = r.url

\* The insert of the Google snapshot failed; the four other snapshots were
\* written after it and the fetch returned its results.
C22_Witness ==
  \E p \in Procs :
    /\ Succeeded(p)
    /\ lost[p] = {"google"}
    /\ \A c \in ParallelChannels : RowsOfChannel(p, c) # {}
    /\ hotels[req[p].hotel_id[1]].booking_url # Null

\* ---------------------------------------------------------------- C23

\* C23: after all batches of handleFetchAllReviews have completed, every
\* hotel of the list has been counted exactly once, as a success or as a
\* failure, however its request ended: the success count plus the failure
\* count equals the number of hotels.
C23_EveryHotelCounted ==
  (batch.handler = "handleFetchAllReviews" /\ batch.pc = "done") =>
    batch.successCount + batch.errorCount = batch.n

\* ---------------------------------------------------------------- C24

\* The review-channel credentials the key status reports as present.
ReviewKeysPresent(b) ==
  {k \in {"google", "rapidapi"} : b.apiKeyStatus # Null /\ b.apiKeyStatus[1].keys[k]}

\* C24: the batch operation is refused before any hotel is fetched only when
\* the review-channel credentials are all absent; with the Google and the
\* RapidAPI credential present, or only one of them missing, it proceeds and
\* fetches every hotel.
C24_RefusedOnlyWithoutAnyKey ==
  batch.handler = "handleFetchAllReviews" =>
    /\ batch.pc = "refused" => ReviewKeysPresent(batch) = {}
    /\ (batch.pc = "done" /\ ReviewKeysPresent(batch) # {}) =>
         \A k \in 1..batch.n : batch.fetches[k] = 1

\* ---------------------------------------------------------------- C25

\* The candidate names of which "Grand Plaza" and the name, both in lower
\* case, contain one another in one direction or the other.
NamesOfGrandPlaza == {"The Grand Plaza Hotel", "Grand"}

\* The adapter has returned a result that carries a confidence.
MatchedResult ==
  /\ adapter.phase = "done"
  /\ adapter.out[1].result # Null
  /\ adapter.out[1].result[1].confidence # Null

\* The candidates of the channel's lodging type, in the order of the list.
LodgingCandidates(list) == SelectSeq(list, LAMBDA c : c.lodging)

\* The candidate a channel takes: Google the first of the list, the others
\* the first of the lodging type, or the first of the list if there is none.
ChosenCandidate(channel, list) ==
  IF channel # "google" /\ Len(LodgingCandidates(list)) > 0
    THEN LodgingCandidates(list)[1]
    ELSE list[1]

\* The number of candidates up to which a channel's search counts as having
\* returned few.
FewThreshold(channel) ==
  CASE channel = "google" -> 1
    [] channel = "tripadvisor" -> 3
    [] channel = "booking" -> 3
    [] channel = "expedia" -> 5

\* What few candidates means in each channel: Google and Booking.com count
\* the whole list, TripAdvisor the candidates of the lodging type when there
\* are any and the whole list otherwise, Expedia the whole list and only
\* when it holds a candidate of the lodging type.
FewCandidates(channel, list) ==
  CASE channel = "google" -> Len(list) <= 1
    [] channel = "tripadvisor" ->
         IF Len(LodgingCandidates(list)) > 0
           THEN Len(LodgingCandidates(list)) <= 3
           ELSE Len(list) <= 3
    [] channel = "booking" -> Len(list) <= 3
    [] channel = "expedia" -> Len(LodgingCandidates(list)) > 0 /\ Len(list) <= 5

\* The confidence of the result, given whether the search returned few.
ConfidenceIs(few) ==
  LET confidence == adapter.out[1].result[1].confidence[1]
      list == adapter.search.results
  IN  IF adapter.existingPlaceId # Null THEN confidence = "high"
      ELSE IF ChosenCandidate(adapter.channel, list).name \in NamesOfGrandPlaza
        THEN confidence = "high"
      ELSE IF few THEN confidence = "medium"
      ELSE confidence = "low"

\* C25 as stated: the confidence of a matched result of Google, TripAdvisor,
\* Expedia and Booking.com is high exactly when the lower-cased names contain
\* one another, otherwise medium when the search returned no more candidates
\* than the channel's threshold and low otherwise; a Google result fetched
\* through a cached place id has confidence high.
C25_ConfidenceByTotalCount ==
  MatchedResult =>
    ConfidenceIs(Len(adapter.search.results) <= FewThreshold(adapter.channel))

\* C25: the confidence of a matched result of Google, TripAdvisor, Expedia
\* and Booking.com is high exactly when the lower-cased query name and the
\* lower-cased name of the chosen candidate contain one another in either
\* direction; otherwise it is medium when the search returned few candidates
\* as the channel counts them (Google: the list has 1; Booking.com: the list
\* has at most 3; TripAdvisor: the lodging candidates, or the whole list if
\* there are none, number at most 3; Expedia: the list has at most 5 and a
\* lodging candidate among them) and low otherwise; a Google result fetched
\* through a cached place id has confidence high without any search.
C25_ConfidenceByChannelCount ==
  MatchedResult =>
    ConfidenceIs(FewCandidates(adapter.channel, adapter.search.results))

\* Booking.com returned a score for the first of two candidates, a hotel
\* under another name: medium.
C25_Witness ==
  /\ MatchedResult
  /\ adapter.channel = "booking"
  /\ Len(adapter.search.results) = 2
  /\ ChosenCandidate("booking", adapter.search.results).name = UnrelatedName
  /\ adapter.out[1].result[1].confidence = Some("medium")
  /\ adapter.out[1].result[1].average_score # Null

\* ---------------------------------------------------------------- C26

\* The columns of the hotel record that belong to a channel.
ColumnsOf(channel) ==
  IF channel = "google" THEN {"google_place_id", "google_url"} ELSE {channel \o "_url"}

\* The invocation takes a step of its Google phase / of its persistence loop.
LeavesGooglePhase(p) == pc[p] = "google_wait" /\ pc'[p] # pc[p]
PersistsResult(p) == pc[p] = "persist" /\ persistIdx'[p] # persistIdx[p]

\* C26: a fetch for hotel H appends only snapshots whose hotel_id is H and
\* updates only H's record; it never changes H's city, and each update of an
\* identifier or URL changes only the columns of the channel concerned,
\* leaving the name and the other channels' URLs as they were; a
\* google_place_id already stored is never replaced.
C26_FetchTouchesOnlyItsHotel ==
  [][/\ Len(snapshots') >= Len(snapshots)
     /\ SubSeq(snapshots', 1, Len(snapshots)) = snapshots
     /\ \A i \in (Len(snapshots) + 1)..Len(snapshots') :
          \E p \in Procs :
            /\ PersistsResult(p)
            /\ snapshots'[i].hotel_id = req[p].hotel_id[1]
            /\ snapshots'[i].channel = ResultOrder[persistIdx[p]]
     /\ \A h \in HotelIds :
          /\ hotels'[h].city = hotels[h].city
          /\ hotels'[h].user_id = hotels[h].user_id
          /\ hotels[h].google_place_id # Null =>
               hotels'[h].google_place_id = hotels[h].google_place_id
          /\ hotels'[h] # hotels[h] =>
               \E p \in Procs :
                 /\ req[p].hotel_id = Some(h)
                 /\ \/ /\ LeavesGooglePhase(p)
                       /\ \A col \in DOMAIN hotels[h] \ {"name"} :
                            hotels'[h][col] = hotels[h][col]
                    \/ /\ PersistsResult(p)
                       /\ \A col \in DOMAIN hotels[h] \ ColumnsOf(ResultOrder[persistIdx[p]]) :
                            hotels'[h][col] = hotels[h][col]]_vars

\* A second fetch of h1 has ended: its place id was stored by the first and
\* its URLs of Google, TripAdvisor and Booking.com are set, the city and the
\* record of h2 are as they were at the start, and every snapshot is h1's.
C26_Witness ==
  \E p \in Procs :
    /\ Succeeded(p)
    /\ nfetch >= 2
    /\ req[p].hotel_id = Some("h1")
    /\ hotel[p][1].google_place_id # Null
    /\ hotels["h1"].google_place_id = hotel[p][1].google_place_id
    /\ hotels["h1"].google_url # Null
    /\ hotels["h1"].tripadvisor_url # Null
    /\ hotels["h1"].booking_url # Null
    /\ hotels["h1"].city = Some("Lisbon")
    /\ hotels["h2"] = HotelRow("u2", StoredName)
    /\ Len(snapshots) >= 10
    /\ \A i \in 1..Len(snapshots) : snapshots[i].hotel_id = "h1"

\* ---------------------------------------------------------------- C27

\* The phase an invocation is in, by the place of its code.
PhaseOf(at) ==
  CASE at \in {"idle", "done"} -> "done"
    [] at = "cache_check" -> "cache check"
    [] at \in {"google", "google_wait"} -> "google"
    [] at \in {"parallel", "parallel_wait"} -> "parallel"
    [] at = "persist" -> "persistence"

\* The phase changes an invocation under way may make.
PhaseOrder ==
  {<<"cache check", "done">>, <<"cache check", "google">>, <<"google", "parallel">>,
   <<"parallel", "persistence">>, <<"persistence", "done">>}

InFlight(p) == pc[p] \notin {"idle", "done"}

\* One step of an invocation under way keeps to the order of the phases; it
\* ends from the cache check with the cached notice only and from
\* persistence with the results only, and sets the response in no step but
\* the one that ends it.
KeepsPhaseOrder(p) ==
  InFlight(p) =>
    /\ PhaseOf(pc'[p]) # PhaseOf(pc[p]) => <<PhaseOf(pc[p]), PhaseOf(pc'[p])>> \in PhaseOrder
    /\ response[p] = Null
    /\ IF pc'[p] = "done"
         THEN /\ response'[p] # Null
              /\ PhaseOf(pc[p]) = "cache check" => response'[p][1].body.kind = "cached"
              /\ PhaseOf(pc[p]) = "persistence" => response'[p][1].body.kind = "results"
         ELSE response'[p] = Null

\* C27: every fetch invocation, each adapter call of which returns or fails
\* in the end, ends with exactly one response, and passes its phases only in
\* the order cache check, then either the cached skip or the Google phase,
\* the parallel phase and persistence, then done, without going back to an
\* earlier phase.
C27_EndsOnceInPhaseOrder ==
  /\ [][\A p \in Procs : KeepsPhaseOrder(p)]_vars
  /\ \A p \in Procs : InFlight(p) ~> (pc[p] = "done" /\ response[p] # Null)

\* An invocation has gone through all phases and ended with the results of
\* five channels, one of whose calls had failed.
C27_Witness ==
  \E p \in Procs :
    /\ Succeeded(p)
    /\ persistIdx[p] = Len(ResultOrder) + 1
    /\ \A c \in Channels : calls[p][c] = 1
    /\ \E c \in ParallelChannels : outcome[p][c] = Some("throw")

\* ---------------------------------------------------------------- C28

\* The snapshots of a channel of a hotel in the table a page has read, those
\* of them inside the date range of the page, and the latest of a set.
StoredOf(h, c) ==
  {i \in DOMAIN view.table : view.table[i].hotel_id = h /\ view.table[i].channel = c}
StoredInRange(h, c) ==
  {i \in StoredOf(h, c) :
     /\ view.from # Null => view.table[i].fetched_at >= view.from[1]
     /\ view.to # Null => view.table[i].fetched_at <= view.to[1]}
LatestStored(S) ==
  CHOOSE i \in S : \A j \in S : view.table[j].fetched_at <= view.table[i].fetched_at

\* The latest snapshot of the set has no score and an earlier one has.
Superseded(S) ==
  /\ S # {}
  /\ view.table[LatestStored(S)].average_score = Null
  /\ \E i \in S :
       /\ view.table[i].fetched_at < view.table[LatestStored(S)].fetched_at
       /\ view.table[i].average_score # Null

\* The score and review count of the latest snapshot of each channel but one.
LatestWithout(h, c, Of(_, _)) ==
  [k \in Channels |->
     IF k = c \/ Of(h, k) = {} THEN Null
     ELSE Some([normalized_score |-> view.table[LatestStored(Of(h, k))].normalized_score,
                total_reviews |-> view.table[LatestStored(Of(h, k))].total_reviews])]

\* What is shown for a hotel leaves out the channel whose latest snapshot,
\* among those Of gives, has no score.
ShownWithout(h, c, Of(_, _)) ==
  /\ view.out[1][h].scores[c] # Null
  /\ view.out[1][h].scores[c][1].normalized_score = Null
  /\ view.out[1][h].scores[c][1].fetched_at =
       Some(view.table[LatestStored(Of(h, c))].fetched_at)
  /\ view.out[1][h].weighted_average = calculateWeightedAverage(LatestWithout(h, c, Of))

\* C28 as stated: once a later snapshot of a channel exists, an earlier
\* scored snapshot of that channel is never used: after a fetch in which the
\* channel failed and a snapshot without scores was stored, the channel is
\* left out of the hotel's weighted average although an older scored
\* snapshot of it exists.
C28_LaterSnapshotAlwaysSupersedes ==
  view.out # Null =>
    \A h \in DOMAIN view.out[1] : \A c \in Channels :
      Superseded(StoredOf(h, c)) => ShownWithout(h, c, StoredOf)

\* C28: once a later snapshot of a channel exists inside the date range a
\* page selects (the dashboard and the export select every date), an earlier
\* scored snapshot of that channel is not used: after a fetch in which the
\* channel failed and a snapshot without scores was stored, the pages and
\* the export show the channel without score and leave it out of the
\* hotel's weighted average, although an older scored snapshot of it exists.
C28_FailedFetchSupersedes ==
  view.out # Null =>
    \A h \in DOMAIN view.out[1] : \A c \in Channels :
      Superseded(StoredInRange(h, c)) => ShownWithout(h, c, StoredInRange)

\* The dashboard after two fetches of h1, in the second of which the call of
\* Booking.com failed: Booking.com has a scored and a later unscored
\* snapshot, and the average is not the one of the scores of all five.
C28_Witness ==
  /\ view.page = "dashboard"
  /\ view.out # Null
  /\ Len(view.table) = 10
  /\ Superseded(StoredOf("h1", "booking"))
  /\ \A c \in Channels \ {"booking"} :
       view.out[1]["h1"].scores[c][1].normalized_score # Null
  /\ view.out[1]["h1"].weighted_average # Null
  /\ view.out[1]["h1"].weighted_average
       # calculateWeightedAverage(
           [c \in Channels |->
              Some([normalized_score |-> Some(normalizeScore(RawScoreOf(c), c)),
                    total_reviews |-> Some(ReviewsOf(c))])])

\* ---------------------------------------------------------------- C29

\* C29: in every adapter result, and so in every snapshot stored from one,
\* normalized_score is null exactly when average_score is null, and
\* otherwise equals normalizeScore(average_score, channel): the stored raw
\* score times the channel's multiplier, rounded to 2 decimals.
C29_NormalizedFromStoredScore ==
  (adapter.phase = "done" /\ adapter.out[1].result # Null) =>
    LET r == adapter.out[1].result[1]
    IN  /\ r.normalized_score = Null <=> r.average_score = Null
        /\ r.average_score # Null =>
             r.normalized_score = Some(normalizeScore(r.average_score[1], adapter.channel))

\* ---------------------------------------------------------------- C30

\* The result carries a score or an error.
ScoreOrError(r) == r.average_score # Null \/ r.error # Null

\* C30: every result a channel adapter returns carries a score or an error:
\* average_score is not null or error is set, on every path of the five
\* adapters.
C30_ScoreOrError ==
  /\ (adapter.phase = "done" /\ adapter.out[1].result # Null) =>
       ScoreOrError(adapter.out[1].result[1])
  /\ (airbnb.phase = "done" /\ airbnb.result # Null) =>
       ScoreOrError(airbnb.result[1])

====
